---- MODULE Spec2Model ----
(***************************************************************************)
(* Grammar lab: the diagnostics server (server.ts), the FIRST/FOLLOW       *)
(* analysis of the visualizer (visualizer.js) and the sentence generator   *)
(* of the extension (extension.ts), as state machines over grammar texts.  *)
(* A text is a string; a token, a line and a symbol are strings too.       *)
(***************************************************************************)
EXTENDS Integers, Sequences, FiniteSets, TLC

(***************************************************************************)
(* Bounds of the model.                                                    *)
(***************************************************************************)
\* the longest document, in lines, that the editor is driven to
MaxLines == 2
\* the largest maxDepth the generator is called with
MaxGenDepth == 4
\* the longest production list whose permutations are all analysed
MaxPermuted == 3
\* the number of change events the document receives
MaxEvents == 3
\* the number of inference processes spawned
MaxProcs == 3
\* the largest mdl an inference result reports
MaxMdl == 2
\* the longest source document, in lines, whose coverage is checked
MaxSrcLines == 3

(***************************************************************************)
(* Strings, as JavaScript's String methods compute them.                   *)
(***************************************************************************)
UpperChars == "ABCDEFGHIJKLMNOPQRSTUVWXYZ"
LowerChars == "abcdefghijklmnopqrstuvwxyz"
DigitChars == "0123456789"

Ch(s, i) == SubSeq(s, i, i)

Min(S) == CHOOSE m \in S : \A n \in S : m <= n
Max(S) == CHOOSE m \in S : \A n \in S : m >= n

InChars(c, set) == \E i \in 1..Len(set) : Ch(set, i) = c

\* /[A-Z]/, /[A-Za-z_]/, /[A-Za-z0-9_]/ and /\s/ on one character
IsUpperCh(c) == InChars(c, UpperChars)
IsIdentStart(c) == InChars(c, UpperChars) \/ InChars(c, LowerChars) \/ c = "_"
IsIdentCh(c) == IsIdentStart(c) \/ InChars(c, DigitChars)
IsSpaceCh(c) == c \in {" ", "\t", "\n", "\r"}

\* String.prototype.toLowerCase
LowerOf(c) ==
  IF InChars(c, UpperChars)
  THEN Ch(LowerChars, CHOOSE i \in 1..Len(UpperChars) : Ch(UpperChars, i) = c)
  ELSE c

RECURSIVE toLowerCase(_)
toLowerCase(s) ==
  IF Len(s) = 0 THEN "" ELSE LowerOf(Ch(s, 1)) \o toLowerCase(Tail(s))

\* String.prototype.trim
trim(s) ==
  LET keep == {i \in 1..Len(s) : ~IsSpaceCh(Ch(s, i))}
  IN  IF keep = {} THEN "" ELSE SubSeq(s, Min(keep), Max(keep))

\* String.prototype.startsWith
startsWith(s, p) == Len(p) <= Len(s) /\ SubSeq(s, 1, Len(p)) = p

\* String.prototype.indexOf, 1-based; 0 when the word does not occur
indexOf(s, w) ==
  LET at == {i \in 1..(Len(s) - Len(w) + 1) : SubSeq(s, i, i + Len(w) - 1) = w}
  IN  IF at = {} THEN 0 ELSE Min(at)

\* String.prototype.split on one separator character
RECURSIVE splitChar(_, _)
splitChar(s, sep) ==
  LET at == {i \in 1..Len(s) : Ch(s, i) = sep}
  IN  IF at = {} THEN <<s>>
      ELSE <<SubSeq(s, 1, Min(at) - 1)>> \o splitChar(SubSeq(s, Min(at) + 1, Len(s)), sep)

\* text.split(/\r?\n/)
RECURSIVE stripCR(_)
stripCR(ls) ==
  IF ls = <<>> THEN <<>>
  ELSE LET l == Head(ls)
       IN  <<IF Len(ls) > 1 /\ Len(l) > 0 /\ Ch(l, Len(l)) = "\r"
             THEN SubSeq(l, 1, Len(l) - 1) ELSE l>> \o stripCR(Tail(ls))
splitLines(text) == stripCR(splitChar(text, "\n"))

\* s.split(/\s+/).filter(Boolean)
RECURSIVE splitWs(_)
splitWs(s) ==
  LET ink == {i \in 1..Len(s) : ~IsSpaceCh(Ch(s, i))}
  IN  IF ink = {} THEN <<>>
      ELSE LET b == Min(ink)
               sp == {i \in b..Len(s) : IsSpaceCh(Ch(s, i))}
               e == IF sp = {} THEN Len(s) ELSE Min(sp) - 1
           IN  <<SubSeq(s, b, e)>> \o splitWs(SubSeq(s, e + 1, Len(s)))

\* the index after the run of characters satisfying a class, from index i
RECURSIVE skipSpaces(_, _)
skipSpaces(s, i) == IF i <= Len(s) /\ IsSpaceCh(Ch(s, i)) THEN skipSpaces(s, i + 1) ELSE i
RECURSIVE skipIdent(_, _)
skipIdent(s, i) == IF i <= Len(s) /\ IsIdentCh(Ch(s, i)) THEN skipIdent(s, i + 1) ELSE i

Range(f) == {f[i] : i \in DOMAIN f}

\* a Set in insertion order (JavaScript iterates Sets in insertion order)
setAdd(seq, e) == IF e \in Range(seq) THEN seq ELSE Append(seq, e)
RECURSIVE setAddAll(_, _)
setAddAll(seq, es) == IF es = <<>> THEN seq ELSE setAddAll(setAdd(seq, Head(es)), Tail(es))

\* null, for a start symbol: an identifier is never the empty string, and the
\* code tests the start symbol for truthiness only
Null == ""

(***************************************************************************)
(* server.ts: the grammar model of the diagnostics.                        *)
(***************************************************************************)
\* /^[A-Z]/.test(tok)
isNonterminal(tok) == Len(tok) > 0 /\ IsUpperCh(Ch(tok, 1))

\* x !== 'ε' && x.toLowerCase() !== 'epsilon'
NotEpsilonWord(tok) == tok # "ε" /\ toLowerCase(tok) # "epsilon"

\* tokenize of server.ts: whitespace split, epsilon words dropped
srvTokenize(s) == IF s = "" THEN <<>> ELSE SelectSeq(splitWs(s), NotEpsilonWord)

\* line.match(/^start\s*:\s*([A-Za-z_][A-Za-z0-9_]*)\s*;?/): the identifier, Null for no match
startMatch(line) ==
  IF ~startsWith(line, "start") THEN Null
  ELSE LET i == skipSpaces(line, 6)
       IN  IF i > Len(line) \/ Ch(line, i) # ":" THEN Null
           ELSE LET j == skipSpaces(line, i + 1)
                IN  IF j > Len(line) \/ ~IsIdentStart(Ch(line, j)) THEN Null
                    ELSE SubSeq(line, j, skipIdent(line, j) - 1)

\* line.match(/^([A-Za-z_][A-Za-z0-9_]*)\s*(?:->|→)\s*(.+)$/)
arrowMatch(line) ==
  LET no == [ok |-> FALSE, lhs |-> "", rhs |-> ""]
  IN  IF Len(line) = 0 \/ ~IsIdentStart(Ch(line, 1)) THEN no
      ELSE LET i == skipIdent(line, 1)
               j == skipSpaces(line, i)
               k == IF j + 1 <= Len(line) /\ SubSeq(line, j, j + 1) = "->" THEN j + 2
                    ELSE IF j <= Len(line) /\ Ch(line, j) = "→" THEN j + 1
                    ELSE 0
           IN  IF k = 0 \/ k > Len(line) THEN no
               ELSE LET r == skipSpaces(line, k)
                    IN  [ok |-> TRUE, lhs |-> SubSeq(line, 1, i - 1),
                         \* \s* gives one character back when only whitespace is left
                         rhs |-> SubSeq(line, IF r > Len(line) THEN Len(line) ELSE r, Len(line))]

\* the productions of one `lhs -> rhs` line, one per `|`-separated alternative
RECURSIVE srvAltProds(_, _, _)
srvAltProds(lhs, alts, i) ==
  IF alts = <<>> THEN <<>>
  ELSE <<[lhs |-> lhs, rhs |-> srvTokenize(trim(Head(alts))), line |-> i]>>
       \o srvAltProds(lhs, Tail(alts), i)

RECURSIVE prodsNonterminals(_)
prodsNonterminals(ps) ==
  IF ps = <<>> THEN <<>>
  ELSE SelectSeq(Head(ps).rhs, isNonterminal) \o prodsNonterminals(Tail(ps))

\* the loop body of parseGrammar, lines i.. of the text (i is 0-based)
RECURSIVE srvParseFrom(_, _, _)
srvParseFrom(lines, i, g) ==
  IF i >= Len(lines) THEN g
  ELSE LET line == trim(lines[i + 1])
           am == arrowMatch(line)
           ps == srvAltProds(am.lhs, splitChar(am.rhs, "|"), i)
       IN  IF line = "" \/ startsWith(line, "//") \/ startsWith(line, "#")
           THEN srvParseFrom(lines, i + 1, g)
           ELSE IF startMatch(line) # Null
           THEN srvParseFrom(lines, i + 1, [g EXCEPT !.start = startMatch(line)])
           ELSE IF am.ok
           THEN srvParseFrom(lines, i + 1,
                  [g EXCEPT !.defined = setAdd(@, am.lhs),
                            !.prods = @ \o ps,
                            !.used = setAddAll(@, prodsNonterminals(ps))])
           ELSE srvParseFrom(lines, i + 1, g)

\* parseGrammar of server.ts
srvParseGrammar(text) ==
  srvParseFrom(splitLines(text), 0,
               [start |-> Null, prods |-> <<>>, defined |-> <<>>, used |-> <<>>])

\* adj.get(v) of findUnreachable: the nonterminals of the right-hand sides of v
adjacent(g, v) ==
  setAddAll(<<>>, prodsNonterminals(SelectSeq(g.prods, LAMBDA p : p.lhs = v)))

\* the while loop of findUnreachable: the seen set once the stack is empty
RECURSIVE reachLoop(_, _, _)
reachLoop(g, stack, seen) ==
  IF stack = <<>> THEN seen
  ELSE LET v == stack[Len(stack)]
           rest == SubSeq(stack, 1, Len(stack) - 1)
       IN  IF v \in seen THEN reachLoop(g, rest, seen)
           ELSE reachLoop(g, rest \o adjacent(g, v), seen \cup {v})

\* srvStartOf without the default
srvStartOfDeclared(g) == g.start

\* g.start || Array.from(g.defined)[0]
srvStartOf(g) ==
  IF g.start # Null THEN g.start
  ELSE IF g.defined # <<>> THEN g.defined[1] ELSE Null

findUnreachable(g) ==
  IF srvStartOf(g) = Null THEN <<>>
  ELSE LET seen == reachLoop(g, <<srvStartOf(g)>>, {})
       IN  SelectSeq(g.defined, LAMBDA d : d \notin seen)

Pos(l, c) == [line |-> l, character |-> c]
Loc(l1, c1, l2, c2) == [start |-> Pos(l1, c1), end |-> Pos(l2, c2)]

\* the first line holding the word as a substring (lines and columns are 0-based)
findFirstOccurrence(text, word) ==
  LET lines == splitLines(text)
      hit == {i \in 1..Len(lines) : indexOf(lines[i], word) > 0}
  IN  IF hit = {} THEN Loc(0, 0, 0, 1)
      ELSE LET i == Min(hit)
               idx == indexOf(lines[i], word) - 1
           IN  Loc(i - 1, idx, i - 1, idx + Len(word))

\* the first line whose trimmed text starts with `lhs ->` or `lhs →`
findLhsLocation(text, lhs) ==
  LET lines == splitLines(text)
      hit == {i \in 1..Len(lines) :
                \/ startsWith(trim(lines[i]), lhs \o " ->")
                \/ startsWith(trim(lines[i]), lhs \o " →")}
  IN  IF hit = {} THEN Loc(0, 0, 0, 1)
      ELSE Loc(Min(hit) - 1, 0, Min(hit) - 1, Len(lines[Min(hit)]))

makeDiag(message, severity, range) ==
  [message |-> message, severity |-> severity, range |-> range]

\* the three checks of documents.onDidChangeContent, in the order they push
undefinedDiags(text, g) ==
  LET us == SelectSeq(g.used, LAMBDA u : u \notin Range(g.defined))
  IN  [i \in 1..Len(us) |->
         makeDiag("Undefined nonterminal '" \o us[i] \o "'", "Error",
                  findFirstOccurrence(text, us[i]))]

unreachableDiags(text, g) ==
  LET us == findUnreachable(g)
  IN  [i \in 1..Len(us) |->
         makeDiag("Unreachable nonterminal '" \o us[i] \o "'", "Warning",
                  findLhsLocation(text, us[i]))]

leftRecursionDiags(g) ==
  LET ps == SelectSeq(g.prods, LAMBDA p : Len(p.rhs) > 0 /\ p.rhs[1] = p.lhs)
  IN  [i \in 1..Len(ps) |->
         makeDiag("Direct left recursion on '" \o ps[i].lhs \o "'", "Error",
                  Loc(ps[i].line, 0, ps[i].line, 80))]

\* diagnose stopping at the first check that finds something
diagnoseFirstCheck(text) ==
  LET g == srvParseGrammar(text)
  IN  IF undefinedDiags(text, g) # <<>> THEN undefinedDiags(text, g)
      ELSE IF unreachableDiags(text, g) # <<>> THEN unreachableDiags(text, g)
      ELSE leftRecursionDiags(g)

\* the diagnostics list the handler sends for a document text
diagnose(text) ==
  LET g == srvParseGrammar(text)
  IN  undefinedDiags(text, g) \o unreachableDiags(text, g) \o leftRecursionDiags(g)

(***************************************************************************)
(* extension.ts: the grammar parser of the generator.                      *)
(***************************************************************************)
\* the scan of splitTopLevel from character i: st holds buf, inSingle, inRegex, esc, out
RECURSIVE splitTopLevelFrom(_, _, _, _)
splitTopLevelFrom(rhs, sep, i, st) ==
  IF i > Len(rhs)
  THEN IF trim(st.buf) # "" THEN Append(st.out, trim(st.buf)) ELSE st.out
  ELSE LET ch == Ch(rhs, i)
           add == [st EXCEPT !.buf = @ \o ch]
       IN  splitTopLevelFrom(rhs, sep, i + 1,
             IF st.esc THEN [add EXCEPT !.esc = FALSE]
             ELSE IF ch = "\\" THEN [add EXCEPT !.esc = TRUE]
             ELSE IF st.inRegex THEN [add EXCEPT !.inRegex = (ch # "/")]
             ELSE IF st.inSingle THEN [add EXCEPT !.inSingle = (ch # "'")]
             ELSE IF ch = "'" THEN [add EXCEPT !.inSingle = TRUE]
             ELSE IF ch = "/" THEN [add EXCEPT !.inRegex = TRUE]
             ELSE IF ch = sep THEN [st EXCEPT !.out = Append(@, trim(st.buf)), !.buf = ""]
             ELSE add)

splitTopLevel(rhs, sep) ==
  splitTopLevelFrom(rhs, sep, 1,
    [buf |-> "", inSingle |-> FALSE, inRegex |-> FALSE, esc |-> FALSE, out |-> <<>>])

\* flush of tokenizeAlt
flushTok(st) ==
  [st EXCEPT !.toks = IF trim(st.buf) # "" THEN Append(@, trim(st.buf)) ELSE @,
             !.buf = ""]

RECURSIVE tokenizeAltFrom(_, _, _)
tokenizeAltFrom(alt, i, st) ==
  IF i > Len(alt) THEN flushTok(st).toks
  ELSE LET ch == Ch(alt, i)
           add == [st EXCEPT !.buf = @ \o ch]
           fl == flushTok(st)
       IN  tokenizeAltFrom(alt, i + 1,
             IF st.esc THEN [add EXCEPT !.esc = FALSE]
             ELSE IF ch = "\\" THEN [add EXCEPT !.esc = TRUE]
             ELSE IF st.inRegex THEN [add EXCEPT !.inRegex = (ch # "/")]
             ELSE IF st.inSingle THEN [add EXCEPT !.inSingle = (ch # "'")]
             ELSE IF ch = "'" THEN [fl EXCEPT !.buf = ch, !.inSingle = TRUE]
             ELSE IF ch = "/" THEN [fl EXCEPT !.buf = ch, !.inRegex = TRUE]
             ELSE IF IsSpaceCh(ch) THEN fl
             ELSE add)

tokenizeAlt(alt) ==
  tokenizeAltFrom(alt, 1,
    [buf |-> "", inSingle |-> FALSE, inRegex |-> FALSE, esc |-> FALSE, toks |-> <<>>])

RECURSIVE joinLines(_)
joinLines(ls) ==
  IF ls = <<>> THEN ""
  ELSE IF Len(ls) = 1 THEN ls[1]
  ELSE ls[1] \o "\n" \o joinLines(Tail(ls))

\* /^\s*\/\//.test(l)
isSlashComment(l) == startsWith(SubSeq(l, skipSpaces(l, 1), Len(l)), "//")

\* gram.split(/\r?\n/).filter(l => !/^\s*\/\//.test(l)).join('\n')
cleanedText(gram) == joinLines(SelectSeq(splitLines(gram), LAMBDA l : ~isSlashComment(l)))

\* one match of /^([A-Za-z_][A-Za-z0-9_]*)\s*(?:->|:)\s*(.+?);/ms starting at index s:
\* the left-hand side, the body (group 2) and the index after the match
ruleMatchAt(text, s) ==
  LET no == [ok |-> FALSE, lhs |-> "", body |-> "", next |-> 0]
  IN  IF s > Len(text) \/ ~IsIdentStart(Ch(text, s)) THEN no
      ELSE LET i == skipIdent(text, s)
               j == skipSpaces(text, i)
               k == IF j + 1 <= Len(text) /\ SubSeq(text, j, j + 1) = "->" THEN j + 2
                    ELSE IF j <= Len(text) /\ Ch(text, j) = ":" THEN j + 1
                    ELSE 0
           IN  IF k = 0 THEN no
               ELSE LET w == skipSpaces(text, k)
                        semi == {q \in (w + 1)..Len(text) : Ch(text, q) = ";"}
                    IN  IF semi # {}
                        THEN [ok |-> TRUE, lhs |-> SubSeq(text, s, i - 1),
                              body |-> SubSeq(text, w, Min(semi) - 1), next |-> Min(semi) + 1]
                        \* no `;` after a first body character: \s* gives one character back
                        ELSE IF w > k /\ w <= Len(text) /\ Ch(text, w) = ";"
                        THEN [ok |-> TRUE, lhs |-> SubSeq(text, s, i - 1),
                              body |-> SubSeq(text, w - 1, w - 1), next |-> w + 1]
                        ELSE no

\* rules.get(lhs) ?? [] ; arr.push(...alts) ; rules.set(lhs, arr): a Map in insertion order
rulesHas(rules, lhs) == \E i \in DOMAIN rules : rules[i].lhs = lhs
rulesGet(rules, lhs) == rules[CHOOSE i \in DOMAIN rules : rules[i].lhs = lhs].alts
rulesPush(rules, lhs, alts) ==
  IF rulesHas(rules, lhs)
  THEN [i \in DOMAIN rules |->
          IF rules[i].lhs = lhs THEN [rules[i] EXCEPT !.alts = @ \o alts] ELSE rules[i]]
  ELSE Append(rules, [lhs |-> lhs, alts |-> alts])

RECURSIVE tokenizeAlts(_)
tokenizeAlts(as) ==
  IF as = <<>> THEN <<>>
  ELSE LET parts == tokenizeAlt(Head(as))
       IN  (IF Len(parts) > 0 THEN <<parts>> ELSE <<>>) \o tokenizeAlts(Tail(as))

\* the exec loop of parseProductions, from lastIndex (1-based) on
RECURSIVE rulesFrom(_, _, _)
rulesFrom(text, lastIndex, rules) ==
  LET starts == {s \in lastIndex..Len(text) :
                   /\ s = 1 \/ Ch(text, s - 1) = "\n"
                   /\ ruleMatchAt(text, s).ok}
  IN  IF starts = {} THEN rules
      ELSE LET m == ruleMatchAt(text, Min(starts))
           IN  rulesFrom(text, m.next,
                         rulesPush(rules, m.lhs, tokenizeAlts(splitTopLevel(m.body, "|"))))

parseProductions(gram) == rulesFrom(cleanedText(gram), 1, <<>>)

(***************************************************************************)
(* visualizer.js: the grammar model and the FIRST/FOLLOW analysis.         *)
(***************************************************************************)
\* tokenize of visualizer.js: whitespace split, nothing dropped
vizTokenize(s) == IF s = "" THEN <<>> ELSE splitWs(s)

RECURSIVE vizAltProds(_, _)
vizAltProds(lhs, alts) ==
  IF alts = <<>> THEN <<>>
  ELSE <<[lhs |-> lhs, rhs |-> vizTokenize(trim(Head(alts)))]>> \o vizAltProds(lhs, Tail(alts))

\* t !== 'ε' && t.toLowerCase() !== 'epsilon', for a token that is no nonterminal
isTerminalTok(t) == ~isNonterminal(t) /\ NotEpsilonWord(t)

RECURSIVE prodsTokens(_)
prodsTokens(ps) == IF ps = <<>> THEN <<>> ELSE Head(ps).rhs \o prodsTokens(Tail(ps))

\* the first loop of parseGrammar, lines i.. of the text (i is 0-based)
RECURSIVE vizParseFrom(_, _, _)
vizParseFrom(lines, i, g) ==
  IF i >= Len(lines) THEN g
  ELSE LET raw == trim(lines[i + 1])
           m == arrowMatch(raw)
       IN  IF raw = "" \/ startsWith(raw, "//") \/ startsWith(raw, "#")
           THEN vizParseFrom(lines, i + 1, g)
           ELSE IF startMatch(raw) # Null
           THEN vizParseFrom(lines, i + 1, [g EXCEPT !.start = startMatch(raw)])
           ELSE IF m.ok
           THEN vizParseFrom(lines, i + 1,
                  [g EXCEPT !.nonterminals = setAdd(@, m.lhs),
                            !.prods = @ \o vizAltProds(m.lhs, splitChar(m.rhs, "|"))])
           ELSE vizParseFrom(lines, i + 1, g)

\* parseGrammar of visualizer.js
vizParseGrammar(text) ==
  LET g == vizParseFrom(splitLines(text), 0,
                        [start |-> Null, prods |-> <<>>, nonterminals |-> <<>>])
      toks == prodsTokens(g.prods)
      nts == setAddAll(g.nonterminals, SelectSeq(toks, isNonterminal))
  IN  [start |-> IF g.start # Null THEN g.start
                 ELSE IF nts # <<>> THEN nts[1] ELSE Null,
       prods |-> g.prods,
       nonterminals |-> nts,
       terminals |-> setAddAll(<<>>, SelectSeq(toks, isTerminalTok))]

\* FIRST_alpha: FIRST of a string of symbols, under the FIRST sets F
RECURSIVE FIRST_alpha(_, _)
FIRST_alpha(F, alpha) ==
  IF alpha = <<>> THEN {"ε"}
  ELSE LET X == Head(alpha)
       IN  IF ~isNonterminal(X) THEN {X}
           ELSE IF "ε" \notin F[X] THEN F[X] \ {"ε"}
           ELSE (F[X] \ {"ε"}) \cup FIRST_alpha(F, Tail(alpha))

\* nullableProd without the test for the epsilon marker
nullableProdNoMarker(p, nul) ==
  \/ Len(p.rhs) = 0
  \/ \A i \in DOMAIN p.rhs : isNonterminal(p.rhs[i]) /\ p.rhs[i] \in nul

\* the condition of step 1 for one production
nullableProd(p, nul) ==
  \/ Len(p.rhs) = 0
  \/ p.rhs[1] = "ε"
  \/ \A i \in DOMAIN p.rhs : isNonterminal(p.rhs[i]) /\ p.rhs[i] \in nul

\* step 1, the productions in order
RECURSIVE nullablePass(_, _)
nullablePass(ps, nul) ==
  IF ps = <<>> THEN nul
  ELSE nullablePass(Tail(ps),
                    IF nullableProd(Head(ps), nul) THEN nul \cup {Head(ps).lhs} ELSE nul)

\* step 2, the productions in order (each sees the additions of the earlier ones)
RECURSIVE firstPass(_, _)
firstPass(ps, F) ==
  IF ps = <<>> THEN F
  ELSE LET p == Head(ps)
       IN  firstPass(Tail(ps), [F EXCEPT ![p.lhs] = @ \cup FIRST_alpha(F, p.rhs)])

\* step 3 for one production, the positions i.. of its right-hand side (1-based)
RECURSIVE followProd(_, _, _, _)
followProd(p, i, F, FO) ==
  IF i > Len(p.rhs) THEN FO
  ELSE LET B == p.rhs[i]
           beta == SubSeq(p.rhs, i + 1, Len(p.rhs))
           fBeta == FIRST_alpha(F, beta)
           withFirst == [FO EXCEPT ![B] = @ \cup (fBeta \ {"ε"})]
           withFollow == IF Len(beta) = 0 \/ "ε" \in fBeta
                         THEN [withFirst EXCEPT ![B] = @ \cup withFirst[p.lhs]]
                         ELSE withFirst
       IN  IF ~isNonterminal(B) THEN followProd(p, i + 1, F, FO)
           ELSE followProd(p, i + 1, F, withFollow)

\* step 3 stopping after the first production
followPassHeadOnly(ps, F, FO) ==
  IF ps = <<>> THEN FO ELSE followProd(Head(ps), 1, F, FO)

RECURSIVE followPass(_, _, _)
followPass(ps, F, FO) ==
  IF ps = <<>> THEN FO
  ELSE followPass(Tail(ps), F, followProd(Head(ps), 1, F, FO))

\* the while loop of firstFollow: passes until one adds nothing
RECURSIVE firstFollowLoop(_, _, _, _)
firstFollowLoop(ps, nul, F, FO) ==
  LET nul2 == nullablePass(ps, nul)
      F2 == firstPass(ps, F)
      FO2 == followPass(ps, F2, FO)
  IN  IF <<nul2, F2, FO2>> = <<nul, F, FO>> THEN <<nul, F, FO>>
      ELSE firstFollowLoop(ps, nul2, F2, FO2)

\* firstFollow(g) for a grammar whose start symbol, if any, is one of its nonterminals:
\* the triple of nullable, FIRST and FOLLOW
firstFollow(g) ==
  LET empty == [A \in Range(g.nonterminals) |-> {}]
  IN  firstFollowLoop(g.prods, {}, empty,
                      IF g.start # Null THEN [empty EXCEPT ![g.start] = {"$"}] ELSE empty)

(***************************************************************************)
(* extension.ts: the generator's helpers.  Math.random() is a choice: a    *)
(* sampler is the set of the values it can return.                         *)
(***************************************************************************)
\* sampleID, sampleNUM, sampleSTR: "x" + 0..99, 1..9, "s" + 0..9 in double quotes;
\* two values of each stand for the range
sampleID == {"x0", "x99"}
sampleNUM == {"1", "9"}
sampleSTR == {"\"s0\"", "\"s9\""}

\* Math.floor(Math.random() * m), Math.random() in [0, 1)
randomIndex(m) == IF m <= 0 THEN {0} ELSE 0..(m - 1)

hasNoNewline(tok) == \A i \in 1..Len(tok) : Ch(tok, i) # "\n"
\* /^'.*'$/ and /^\/.*\/$/
isQuoted(tok) == Len(tok) >= 2 /\ Ch(tok, 1) = "'" /\ Ch(tok, Len(tok)) = "'" /\ hasNoNewline(tok)
isRegex(tok) == Len(tok) >= 2 /\ Ch(tok, 1) = "/" /\ Ch(tok, Len(tok)) = "/" /\ hasNoNewline(tok)

TailNonterminals == {"AddExprTail", "TermTail", "RelExprTail", "BitExprTail"}

\* the values minimalSampleFor(sym) can return
minimalSampleFor(sym) ==
  IF sym \in TailNonterminals THEN {""}
  ELSE IF sym \in {"Expr", "AddExpr", "Factor"} THEN sampleNUM
  ELSE IF sym = "Stmt" THEN {id \o " = " \o num : id \in sampleID, num \in sampleNUM}
  ELSE sampleID

\* [...pool].sort((a, b) => a.length - b.length): a stable sort by length
RECURSIVE insertByLength(_, _)
insertByLength(sorted, a) ==
  IF sorted = <<>> THEN <<a>>
  ELSE IF Len(sorted[Len(sorted)]) <= Len(a) THEN Append(sorted, a)
  ELSE Append(insertByLength(SubSeq(sorted, 1, Len(sorted) - 1), a), sorted[Len(sorted)])

RECURSIVE sortByLength(_)
sortByLength(pool) ==
  IF pool = <<>> THEN <<>>
  ELSE insertByLength(sortByLength(SubSeq(pool, 1, Len(pool) - 1)), pool[Len(pool)])

\* the depth past which pickAlt prefers short, non-recursing alternatives
DepthThreshold == 3

\* the candidates of pickAlt, sorted
pickAltSorted(alts, lhs, depth) ==
  LET nonEmpty == SelectSeq(alts, LAMBDA a : ~(Len(a) = 1 /\ a[1] = "ε"))
      pool == IF nonEmpty # <<>> THEN nonEmpty ELSE alts
      safe == SelectSeq(pool, LAMBDA a : a[1] # lhs)
  IN  sortByLength(IF depth > DepthThreshold /\ safe # <<>> THEN safe ELSE pool)

\* a draw that can also land one past the last candidate
pickAltIndexesInclusive(n, depth) == 0..n

\* the indexes (0-based) pickAlt can draw into the sorted candidates
pickAltIndexes(n, depth) ==
  IF depth > DepthThreshold THEN randomIndex((n + 1) \div 2) ELSE randomIndex(n)

\* the values pickAlt can return: sorted[index], undefined when the index is out of range
pickAlt(alts, lhs, depth) ==
  LET sorted == pickAltSorted(alts, lhs, depth)
  IN  {IF k < Len(sorted) THEN [defined |-> TRUE, alt |-> sorted[k + 1]]
       ELSE [defined |-> FALSE, alt |-> <<>>] :
         k \in pickAltIndexes(Len(sorted), depth)}

RECURSIVE joinWith(_, _)
joinWith(parts, sep) ==
  IF parts = <<>> THEN ""
  ELSE IF Len(parts) = 1 THEN parts[1]
  ELSE parts[1] \o sep \o joinWith(Tail(parts), sep)

isCloser(c) == c \in {";", ":", ")", ",", "]", "}"}
isOpener(c) == c \in {"(", "[", "{"}

\* .replace(/\s+([;:),\]\}])/g, "$1")
RECURSIVE dropSpaceBeforeCloser(_)
dropSpaceBeforeCloser(str) ==
  IF str = "" THEN ""
  ELSE IF ~IsSpaceCh(Ch(str, 1)) THEN Ch(str, 1) \o dropSpaceBeforeCloser(Tail(str))
  ELSE LET j == skipSpaces(str, 1)
       IN  IF j <= Len(str) /\ isCloser(Ch(str, j))
           THEN Ch(str, j) \o dropSpaceBeforeCloser(SubSeq(str, j + 1, Len(str)))
           ELSE SubSeq(str, 1, j - 1) \o dropSpaceBeforeCloser(SubSeq(str, j, Len(str)))

\* .replace(/([(\[\{])\s+/g, "$1")
RECURSIVE dropSpaceAfterOpener(_)
dropSpaceAfterOpener(str) ==
  IF str = "" THEN ""
  ELSE IF isOpener(Ch(str, 1))
  THEN Ch(str, 1) \o dropSpaceAfterOpener(SubSeq(str, skipSpaces(str, 2), Len(str)))
  ELSE Ch(str, 1) \o dropSpaceAfterOpener(Tail(str))

\* .replace(/\s+/g, " ")
RECURSIVE collapseSpaces(_)
collapseSpaces(str) ==
  IF str = "" THEN ""
  ELSE IF IsSpaceCh(Ch(str, 1))
  THEN " " \o collapseSpaces(SubSeq(str, skipSpaces(str, 1), Len(str)))
  ELSE Ch(str, 1) \o collapseSpaces(Tail(str))

RECURSIVE skipDigits(_, _)
skipDigits(str, i) ==
  IF i <= Len(str) /\ InChars(Ch(str, i), DigitChars) THEN skipDigits(str, i + 1) ELSE i

\* the index after the string literal "..." that starts at i, 0 when it is not closed
closeOfString(str, i) ==
  LET q == {k \in (i + 1)..Len(str) : Ch(str, k) = "\""}
  IN  IF q = {} THEN 0 ELSE Min(q) + 1

\* the index after the atom of the given kind that starts at i, i when there is none
atomEnd(str, i, kind) ==
  IF i > Len(str) THEN i
  ELSE IF kind = "ident" THEN (IF IsIdentStart(Ch(str, i)) THEN skipIdent(str, i) ELSE i)
  ELSE IF kind = "number" THEN skipDigits(str, i)
  ELSE IF Ch(str, i) = "\"" /\ closeOfString(str, i) # 0 THEN closeOfString(str, i) ELSE i

\* .replace(/\(\s*(atom)\s*\)/g, "$1"), atom an identifier, a number or a "..." string
RECURSIVE unwrapAtom(_, _)
unwrapAtom(str, kind) ==
  IF str = "" THEN ""
  ELSE IF Ch(str, 1) # "(" THEN Ch(str, 1) \o unwrapAtom(Tail(str), kind)
  ELSE LET a == skipSpaces(str, 2)
           b == atomEnd(str, a, kind)
           c == skipSpaces(str, b)
       IN  IF b > a /\ c <= Len(str) /\ Ch(str, c) = ")"
           THEN SubSeq(str, a, b - 1) \o unwrapAtom(SubSeq(str, c + 1, Len(str)), kind)
           ELSE "(" \o unwrapAtom(Tail(str), kind)

\* the post-processing of expand: parts joined and normalised
joinParts(parts) ==
  LET spaced == trim(collapseSpaces(dropSpaceAfterOpener(dropSpaceBeforeCloser(
                  joinWith(parts, " ")))))
  IN  unwrapAtom(unwrapAtom(unwrapAtom(spaced, "ident"), "number"), "string")

\* /^(?:[A-Za-z_][A-Za-z0-9_]*|\d+|".*")$/.test(inner)
isTrivial(inner) ==
  \/ inner # "" /\ IsIdentStart(Ch(inner, 1)) /\ skipIdent(inner, 1) > Len(inner)
  \/ inner # "" /\ skipDigits(inner, 1) > Len(inner)
  \/ Len(inner) >= 2 /\ Ch(inner, 1) = "\"" /\ Ch(inner, Len(inner)) = "\"" /\ hasNoNewline(inner)

(***************************************************************************)
(* The grammar texts the components are driven with: documents of at most  *)
(* MaxLines lines, each typed from GrammarLines.                           *)
(***************************************************************************)
GrammarLines ==
  << "start: S;",
     "S -> A",
     "S -> 'x'",
     "Z -> 'y'",
     "E -> E '+' T",
     "E -> T '+' E",
     "S -> 'a|b'",
     "S -> 'x| S Z y'",
     "Z->'a B' | ε",
     "// note",
     "  ",
     "A → S Z | epsilon" >>

lineCount(text) == IF text = "" THEN 0 ELSE Len(splitLines(text))
appendLine(text, l) == IF text = "" THEN l ELSE text \o "\n" \o l
dropLastLine(text) ==
  LET nl == {i \in 1..Len(text) : Ch(text, i) = "\n"}
  IN  IF nl = {} THEN "" ELSE SubSeq(text, 1, Max(nl) - 1)

(***************************************************************************)
(* State.                                                                  *)
(***************************************************************************)
VARIABLES
  docText,     \* server: the text of the open document (TextDocuments)
  published,   \* server: the diagnostics last sent for the document
  events,      \* server: the change events of the document so far
  sends,       \* server: the sendDiagnostics calls for the document so far
  vizText,     \* visualizer: msg.text of the GRAMMAR_TEXT message being handled
  vizG,        \* visualizer: model, the result of parseGrammar
  nullable,    \* firstFollow: the nullable set
  FIRST,       \* firstFollow: the FIRST map
  FOLLOW,      \* firstFollow: the FOLLOW map
  changed,     \* firstFollow: the loop flag
  vizPc,       \* visualizer: where the handler stands
  passes,      \* firstFollow: full passes of the loop body completed
  passStart,   \* firstFollow: the three sets as the current pass found them
  lastRun,     \* visualizer: text and result of the run before a refresh
  genText,     \* generateFromGrammar: grammarText
  genStart,    \* generateFromGrammar: startSymbol
  genMaxDepth, \* generateFromGrammar: maxDepth
  genRules,    \* generateFromGrammar: rules, the result of parseProductions
  genStack,    \* the expand calls in progress, the innermost last
  genRoot,     \* the expansions the top level asks for, and their results
  genPc,       \* where generateFromGrammar stands
  genOut,      \* the string generateFromGrammar returned
  procs,       \* runInference: the child processes spawned, in order
  currentProc, \* extension.ts: currentProc, the index of a process or NoProc
  previewTimer,        \* extension.ts: a preview timer is pending
  lastPreviewMetrics,  \* extension.ts: lastPreviewMetrics
  lastClose,   \* runInference: what the close handler that ran last did
  active,      \* the extension is activated and not yet deactivated
  covGrammar,  \* checkCoverage: grammarText
  covSource,   \* checkCoverage: the lines of srcDoc
  covDecorations,  \* checkCoverage: the lines highlighted as uncovered
  covMessage,  \* checkCoverage: the numbers of the status bar message
  covPc        \* checkCoverage: no check yet, or the last check is done

srvVars == <<docText, published, events, sends>>
vizVars == <<vizText, vizG, nullable, FIRST, FOLLOW, changed, vizPc, passes, passStart, lastRun>>
genVars == <<genText, genStart, genMaxDepth, genRules, genStack, genRoot, genPc, genOut>>
infVars == <<procs, currentProc, previewTimer, lastPreviewMetrics, lastClose, active>>
covVars == <<covGrammar, covSource, covDecorations, covMessage, covPc>>
extVars == <<infVars, covVars>>
vars == <<srvVars, vizVars, genVars, extVars>>

SrvIdle ==
  /\ docText = ""
  /\ published = <<>>
  /\ events = 0
  /\ sends = 0

\* extension.ts: the globals of runInference before the first inference
NoProc == 0

\* out.metrics: undefined, an object without a numeric mdl, or one with a numeric mdl
NoMetrics == [defined |-> FALSE, numeric |-> FALSE, mdl |-> 0]
MetricsValues ==
  {NoMetrics, [defined |-> TRUE, numeric |-> FALSE, mdl |-> 0]}
    \cup {[defined |-> TRUE, numeric |-> TRUE, mdl |-> m] : m \in 1..MaxMdl}

NoClose == [outcome |-> "none", preview |-> FALSE, metrics |-> NoMetrics]

InfIdle ==
  /\ procs = <<>>
  /\ currentProc = NoProc
  /\ previewTimer = FALSE
  /\ lastPreviewMetrics = NoMetrics
  /\ lastClose = NoClose
  /\ active = TRUE

\* extension.ts: before the first coverage check
NoCoverage == [pct |-> 100, uncovered |-> 0, total |-> 0]

CovIdle ==
  /\ covGrammar = ""
  /\ covSource = <<>>
  /\ covDecorations = <<>>
  /\ covMessage = NoCoverage
  /\ covPc = "idle"

(***************************************************************************)
(* visualizer.js: the GRAMMAR_TEXT handler, firstFollow step by step.      *)
(***************************************************************************)
ClassicText == "start: E;\nE -> T E2\nE2 -> '+' T E2 | ε\nT -> 'id'"

RECURSIVE TextsUpTo(_)
TextsUpTo(n) ==
  IF n = 0 THEN {""}
  ELSE LET prev == TextsUpTo(n - 1)
       IN  prev \cup {appendLine(t, GrammarLines[i]) :
                        t \in {u \in prev : lineCount(u) = n - 1}, i \in DOMAIN GrammarLines}

\* further texts the visualizer is sent: two start declarations, an epsilon marker
\* followed by a symbol, an empty alternative, nullable nonterminals in sequence,
\* the word epsilon after a nonterminal
MoreTexts ==
  { "start: S;\nS -> Z\nZ -> 'y'\nstart: Z",
    "S -> ε 'b'",
    "S -> A B 'c' |\nA -> ε\nB -> A | 'b' A",
    "start: S;\nS -> A B 'c'\nA -> 'a' | ε\nB -> A 'b' | ε",
    "S -> A epsilon\nA -> 'a'",
    "S -> 'a' // Note b" }

VizTexts == TextsUpTo(MaxLines) \cup {ClassicText} \cup MoreTexts

EmptyModel == [start |-> Null, prods |-> <<>>, nonterminals |-> <<>>, terminals |-> <<>>]
NoRun == [valid |-> FALSE, text |-> "", nullable |-> {}, first |-> <<>>, follow |-> <<>>]
emptySets(g) == [A \in Range(g.nonterminals) |-> {}]

VizIdle ==
  /\ vizText = ""
  /\ vizG = EmptyModel
  /\ nullable = {}
  /\ FIRST = <<>>
  /\ FOLLOW = <<>>
  /\ changed = FALSE
  /\ vizPc = "idle"
  /\ passes = 0
  /\ passStart = <<{}, <<>>, <<>>>>
  /\ lastRun = NoRun

\* a GRAMMAR_TEXT message is delivered
VizInit ==
  /\ vizText \in VizTexts
  /\ vizG = EmptyModel
  /\ nullable = {}
  /\ FIRST = <<>>
  /\ FOLLOW = <<>>
  /\ changed = FALSE
  /\ vizPc = "message"
  /\ passes = 0
  /\ passStart = <<{}, <<>>, <<>>>>
  /\ lastRun = NoRun

\* FOLLOW.get(g.start).add('$') on a start symbol that has no entry: a TypeError
startHasNoEntry(g) == g.start # Null /\ g.start \notin Range(g.nonterminals)

\* parseGrammar, then firstFollow up to the loop
VizReceive ==
  /\ vizPc = "message"
  /\ LET g == vizParseGrammar(vizText)
     IN  /\ vizG' = g
         /\ nullable' = {}
         /\ FIRST' = emptySets(g)
         /\ FOLLOW' = IF g.start # Null /\ ~startHasNoEntry(g)
                      THEN [emptySets(g) EXCEPT ![g.start] = {"$"}]
                      ELSE emptySets(g)
         /\ changed' = TRUE
         /\ vizPc' = IF startHasNoEntry(g) THEN "raised" ELSE "test"
  /\ passes' = 0
  /\ passStart' = <<{}, <<>>, <<>>>>
  /\ UNCHANGED <<vizText, lastRun, srvVars, genVars, extVars>>

\* VizLoopTest with `if` for `while`: a single pass
VizLoopTestOnce ==
  /\ vizPc = "test"
  /\ IF changed /\ passes = 0
     THEN /\ vizPc' = "nullable"
          /\ changed' = FALSE
          /\ passStart' = <<nullable, FIRST, FOLLOW>>
     ELSE /\ vizPc' = "done"
          /\ UNCHANGED <<changed, passStart>>
  /\ UNCHANGED <<vizText, vizG, nullable, FIRST, FOLLOW, passes, lastRun, srvVars, genVars, extVars>>

\* while (changed) { changed = false; ...
VizLoopTest ==
  /\ vizPc = "test"
  /\ IF changed
     THEN /\ vizPc' = "nullable"
          /\ changed' = FALSE
          /\ passStart' = <<nullable, FIRST, FOLLOW>>
     ELSE /\ vizPc' = "done"
          /\ UNCHANGED <<changed, passStart>>
  /\ UNCHANGED <<vizText, vizG, nullable, FIRST, FOLLOW, passes, lastRun, srvVars, genVars, extVars>>

VizNullable ==
  /\ vizPc = "nullable"
  /\ nullable' = nullablePass(vizG.prods, nullable)
  /\ changed' = (changed \/ nullable' # nullable)
  /\ vizPc' = "first"
  /\ UNCHANGED <<vizText, vizG, FIRST, FOLLOW, passes, passStart, lastRun, srvVars, genVars, extVars>>

VizFirst ==
  /\ vizPc = "first"
  /\ FIRST' = firstPass(vizG.prods, FIRST)
  /\ changed' = (changed \/ FIRST' # FIRST)
  /\ vizPc' = "follow"
  /\ UNCHANGED <<vizText, vizG, nullable, FOLLOW, passes, passStart, lastRun, srvVars, genVars, extVars>>

\* VizFollow without `if (localChanged) changed = true`
VizFollowNoFlag ==
  /\ vizPc = "follow"
  /\ FOLLOW' = followPass(vizG.prods, FIRST, FOLLOW)
  /\ vizPc' = "test"
  /\ passes' = passes + 1
  /\ UNCHANGED <<vizText, vizG, nullable, FIRST, changed, passStart, lastRun, srvVars, genVars, extVars>>

VizFollow ==
  /\ vizPc = "follow"
  /\ FOLLOW' = followPass(vizG.prods, FIRST, FOLLOW)
  /\ changed' = (changed \/ FOLLOW' # FOLLOW)
  /\ vizPc' = "test"
  /\ passes' = passes + 1
  /\ UNCHANGED <<vizText, vizG, nullable, FIRST, passStart, lastRun, srvVars, genVars, extVars>>

\* the refresh button: the same text is sent again
VizRefresh ==
  /\ vizPc \in {"done", "raised"}
  /\ lastRun' = IF vizPc = "done"
                THEN [valid |-> TRUE, text |-> vizText, nullable |-> nullable,
                      first |-> FIRST, follow |-> FOLLOW]
                ELSE lastRun
  /\ vizPc' = "message"
  /\ UNCHANGED <<vizText, vizG, nullable, FIRST, FOLLOW, changed, passes, passStart, srvVars, genVars, extVars>>

VizNext ==
  \/ VizReceive
  \/ VizLoopTest
  \/ VizNullable
  \/ VizFirst
  \/ VizFollow
  \/ VizRefresh

(***************************************************************************)
(* extension.ts: generateFromGrammar, one expand call at a time.           *)
(***************************************************************************)
GenTexts ==
  { "",
    "S -> A\nA -> 'x'",
    "A ->  ;",
    "S -> A 'x' | ε ;\nA -> ε ;",
    "Expr -> Factor ;",
    "S -> S 'a' | 'b' ;",
    "S -> U c ;",
    "start: S;\nS -> 'a|b' ID ;",
    "StmtList -> Stmt ;\nStmt -> ID '=' Expr ;",
    "# c\nstart: S;\nS -> A\nA -> 'x' | ε",
    "S -> epsilon | 'x' ;",
    "S -> 'a' S | 'b' | 'c' 'd' 'e' ;" }

GenStarts == {"start", "s", "Expr"}

NoRoot == [sym |-> "", total |-> 0, results |-> <<>>, stmts |-> FALSE]

GenIdle ==
  /\ genText = ""
  /\ genStart = "start"
  /\ genMaxDepth = 0
  /\ genRules = <<>>
  /\ genStack = <<>>
  /\ genRoot = NoRoot
  /\ genPc = "idle"
  /\ genOut = ""

\* generateFromGrammar(grammarText, startSymbol, maxDepth) is called
GenInit ==
  /\ genText \in GenTexts
  /\ genStart \in GenStarts
  /\ genMaxDepth \in 0..MaxGenDepth
  /\ genRules = <<>>
  /\ genStack = <<>>
  /\ genRoot = NoRoot
  /\ genPc = "call"
  /\ genOut = ""

returning(sym, depth, vals) ==
  {[sym |-> sym, depth |-> depth, mode |-> "ret", chosen |-> <<>>, parts |-> <<>>, val |-> v] :
     v \in vals}

\* expand(sym, depth) up to its return or its first recursive call: the frames it can be in
expandEnter(rules, maxDepth, sym, depth) ==
  IF sym = "ε" THEN returning(sym, depth, {""})
  ELSE IF isQuoted(sym) THEN returning(sym, depth, {SubSeq(sym, 2, Len(sym) - 1)})
  ELSE IF isRegex(sym) THEN returning(sym, depth, sampleSTR)
  ELSE IF sym = "ID" THEN returning(sym, depth, sampleID)
  ELSE IF sym = "NUM" THEN returning(sym, depth, sampleNUM)
  ELSE IF sym = "STR" THEN returning(sym, depth, sampleSTR)
  ELSE IF sym = "Factor"
  THEN returning(sym, depth, sampleID \cup sampleNUM \cup sampleSTR)
       \cup {[sym |-> sym, depth |-> depth, mode |-> "paren",
              chosen |-> <<>>, parts |-> <<>>, val |-> ""]}
  ELSE IF ~rulesHas(rules, sym) \/ rulesGet(rules, sym) = <<>>
  THEN returning(sym, depth, minimalSampleFor(sym))
  ELSE IF depth > maxDepth
  THEN returning(sym, depth, IF sym \in TailNonterminals THEN {""} ELSE minimalSampleFor(sym))
  ELSE {[sym |-> sym, depth |-> depth, mode |-> IF c.defined THEN "children" ELSE "raise",
         chosen |-> c.alt, parts |-> <<>>, val |-> ""] :
          c \in pickAlt(rulesGet(rules, sym), sym, depth)}

\* the rule named exactly like the start symbol, else the first rule, else "start"
resolveStartExact(rules, startSymbol) ==
  IF rulesHas(rules, startSymbol) THEN startSymbol
  ELSE IF rules # <<>> THEN rules[1].lhs
  ELSE "start"

\* [...rules.keys()].find(k => k.toLowerCase() === startSymbol.toLowerCase())
\*   || [...rules.keys()][0] || "start"
resolveStart(rules, startSymbol) ==
  LET hit == {i \in DOMAIN rules : toLowerCase(rules[i].lhs) = toLowerCase(startSymbol)}
  IN  IF hit # {} THEN rules[Min(hit)].lhs
      ELSE IF rules # <<>> THEN rules[1].lhs
      ELSE "start"

\* parseProductions, then the choice between the statement list and the start symbol
GenBegin ==
  /\ genPc = "call"
  /\ LET rules == parseProductions(genText)
     IN  /\ genRules' = rules
         /\ IF rulesHas(rules, "Stmt") /\ rulesHas(rules, "StmtList")
            THEN \E N \in 2..4 :
                   genRoot' = [sym |-> "Stmt", total |-> N, results |-> <<>>, stmts |-> TRUE]
            ELSE genRoot' = [sym |-> resolveStart(rules, genStart), total |-> 1,
                             results |-> <<>>, stmts |-> FALSE]
  /\ genPc' = "run"
  /\ UNCHANGED <<genText, genStart, genMaxDepth, genStack, genOut, srvVars, vizVars, extVars>>

\* a call of expand pushes its frame; picking an undefined alternative raises
pushCall(sym, depth) ==
  \E f \in expandEnter(genRules, genMaxDepth, sym, depth) :
    IF f.mode = "raise"
    THEN genStack' = <<>> /\ genPc' = "raised"
    ELSE genStack' = Append(genStack, f) /\ genPc' = genPc

top == genStack[Len(genStack)]

\* expand(start, 0), or expand("Stmt", 0) for the next statement
GenCallRoot ==
  /\ genPc = "run"
  /\ genStack = <<>>
  /\ Len(genRoot.results) < genRoot.total
  /\ pushCall(genRoot.sym, 0)
  /\ UNCHANGED <<genText, genStart, genMaxDepth, genRules, genRoot, genOut, srvVars, vizVars, extVars>>

\* chosen.map(t => expand(t, depth + 1)): the call for the next symbol
GenCallChild ==
  /\ genPc = "run"
  /\ genStack # <<>>
  /\ top.mode = "children"
  /\ Len(top.parts) < Len(top.chosen)
  /\ pushCall(top.chosen[Len(top.parts) + 1], top.depth + 1)
  /\ UNCHANGED <<genText, genStart, genMaxDepth, genRules, genRoot, genOut, srvVars, vizVars, extVars>>

\* the PAREN choice of Factor: expand("Expr", depth + 1)
GenCallParen ==
  /\ genPc = "run"
  /\ genStack # <<>>
  /\ top.mode = "paren"
  /\ pushCall("Expr", top.depth + 1)
  /\ UNCHANGED <<genText, genStart, genMaxDepth, genRules, genRoot, genOut, srvVars, vizVars, extVars>>

\* all symbols of the chosen alternative are expanded: join, normalise, return
GenFinish ==
  /\ genPc = "run"
  /\ genStack # <<>>
  /\ top.mode = "children"
  /\ Len(top.parts) = Len(top.chosen)
  /\ LET out == joinParts(top.parts)
     IN  \E v \in (IF out # "" THEN {out} ELSE minimalSampleFor(top.sym)) :
           genStack' = [genStack EXCEPT ![Len(genStack)] = [@ EXCEPT !.mode = "ret", !.val = v]]
  /\ UNCHANGED <<genText, genStart, genMaxDepth, genRules, genRoot, genPc, genOut, srvVars, vizVars, extVars>>

\* a call returns its value to its caller
GenReturn ==
  /\ genPc = "run"
  /\ genStack # <<>>
  /\ top.mode = "ret"
  /\ LET v == top.val
         rest == SubSeq(genStack, 1, Len(genStack) - 1)
     IN  IF rest = <<>>
         THEN /\ genStack' = <<>>
              /\ genRoot' = [genRoot EXCEPT !.results = Append(@, v)]
         ELSE /\ genRoot' = genRoot
              /\ IF rest[Len(rest)].mode = "paren"
                 \* a trivial inner expression drops the parentheses
                 THEN \E w \in (IF isTrivial(v) THEN sampleID \cup sampleNUM
                                ELSE {"(" \o v \o ")"}) :
                        genStack' = [rest EXCEPT ![Len(rest)] =
                                       [@ EXCEPT !.mode = "ret", !.val = w]]
                 ELSE genStack' = [rest EXCEPT ![Len(rest)] =
                                     [@ EXCEPT !.parts = Append(@, v)]]
  /\ UNCHANGED <<genText, genStart, genMaxDepth, genRules, genPc, genOut, srvVars, vizVars, extVars>>

\* s.trim().endsWith(";") ? s : s + ";"
withTerminator(str) ==
  IF trim(str) # "" /\ Ch(trim(str), Len(trim(str))) = ";" THEN str ELSE str \o ";"

\* generateFromGrammar returns
GenEnd ==
  /\ genPc = "run"
  /\ genStack = <<>>
  /\ Len(genRoot.results) = genRoot.total
  /\ genOut' = IF genRoot.stmts
               THEN joinWith([i \in DOMAIN genRoot.results |->
                                withTerminator(genRoot.results[i])], "\n")
               ELSE genRoot.results[1]
  /\ genPc' = "returned"
  /\ UNCHANGED <<genText, genStart, genMaxDepth, genRules, genStack, genRoot, srvVars, vizVars, extVars>>

GenNext ==
  \/ GenBegin
  \/ GenCallRoot
  \/ GenCallChild
  \/ GenCallParen
  \/ GenFinish
  \/ GenReturn
  \/ GenEnd

(***************************************************************************)
(* server.ts: documents.onDidChangeContent.                                *)
(***************************************************************************)
SrvInit == SrvIdle /\ VizIdle /\ GenIdle /\ InfIdle /\ CovIdle

\* a handler that keeps the diagnostics of the earlier events in its list
DidChangeContentKeeping(newText) ==
  /\ events < MaxEvents
  /\ docText' = newText
  /\ events' = events + 1
  /\ published' = published \o diagnose(newText)
  /\ sends' = sends + 1
  /\ UNCHANGED <<vizVars, genVars, extVars>>

\* the handler, for a change that leaves the document with text newText: the list
\* diags starts empty, is filled from the text and is sent once
DidChangeContent(newText) ==
  /\ events < MaxEvents
  /\ docText' = newText
  /\ events' = events + 1
  /\ LET diags == <<>> \o diagnose(newText)
     IN  published' = diags
  /\ sends' = sends + 1
  /\ UNCHANGED <<vizVars, genVars, extVars>>

TypeLine ==
  \E i \in DOMAIN GrammarLines :
    /\ lineCount(docText) < MaxLines
    /\ DidChangeContent(appendLine(docText, GrammarLines[i]))

DeleteLine ==
  /\ docText # ""
  /\ DidChangeContent(dropLastLine(docText))

SrvNext == TypeLine \/ DeleteLine

(***************************************************************************)
(* extension.ts: runInference, schedulePreview, deactivate and the close   *)
(* event of an inference child process.                                    *)
(***************************************************************************)
\* child.kill(): the signal is sent, the close event comes later
kill(ps, p) == [ps EXCEPT ![p].status = IF @ = "closed" THEN @ ELSE "killed"]

\* runInference(ctx, isPreview) with a workspace folder open: the process currentProc
\* refers to is killed, a new one is spawned and becomes currentProc
runInference(isPreview) ==
  /\ Len(procs) < MaxProcs
  /\ procs' = Append(IF currentProc # NoProc THEN kill(procs, currentProc) ELSE procs,
                     [preview |-> isPreview, status |-> "running"])
  /\ currentProc' = Len(procs) + 1

\* the commands uta.infer.preview and uta.infer.full; without a workspace folder
\* runInference returns after the error message
InferCommand ==
  /\ active
  /\ \E isPreview \in BOOLEAN, folder \in BOOLEAN :
       IF folder THEN runInference(isPreview) ELSE UNCHANGED <<procs, currentProc>>
  /\ UNCHANGED <<previewTimer, lastPreviewMetrics, lastClose, active, srvVars, vizVars, genVars, covVars>>

\* schedulePreview: a pending timer is cleared and a new one is set
SchedulePreview ==
  /\ active
  /\ previewTimer' = TRUE
  /\ UNCHANGED <<procs, currentProc, lastPreviewMetrics, lastClose, active,
                 srvVars, vizVars, genVars, covVars>>

\* the timer of schedulePreview fires: runInference(ctx, true)
PreviewTimerFires ==
  /\ active
  /\ previewTimer
  /\ previewTimer' = FALSE
  /\ runInference(TRUE)
  /\ UNCHANGED <<lastPreviewMetrics, lastClose, active, srvVars, vizVars, genVars, covVars>>

\* the test of the close handler that keeps the stored metrics
keepsStoredNever(isPreview, stored, out) == FALSE

keepsStored(isPreview, stored, out) ==
  /\ isPreview
  /\ stored.defined
  /\ out.defined /\ out.numeric
  /\ stored.numeric
  /\ out.mdl > stored.mdl

\* cp.on('close'): the process p, running or killed, has closed with exit code code;
\* parsed tells whether JSON.parse(buf) yields an object, out is its metrics
Close(p) ==
  /\ procs[p].status # "closed"
  /\ procs' = [procs EXCEPT ![p].status = "closed"]
  /\ currentProc' = NoProc
  /\ \E code \in {0, 1}, parsed \in BOOLEAN, out \in MetricsValues :
       LET done(outcome) == [outcome |-> outcome, preview |-> procs[p].preview, metrics |-> out]
       IN  IF code # 0
           THEN lastClose' = done("failed") /\ UNCHANGED lastPreviewMetrics
           ELSE IF ~parsed
           THEN lastClose' = done("badjson") /\ UNCHANGED lastPreviewMetrics
           ELSE IF keepsStored(procs[p].preview, lastPreviewMetrics, out)
           THEN lastClose' = done("kept") /\ UNCHANGED lastPreviewMetrics
           ELSE lastClose' = done("opened") /\ lastPreviewMetrics' = out
  /\ UNCHANGED <<previewTimer, active, srvVars, vizVars, genVars, covVars>>

ProcCloses == \E p \in DOMAIN procs : Close(p)

\* deactivate: the process currentProc refers to is killed
Deactivate ==
  /\ active
  /\ active' = FALSE
  /\ procs' = IF currentProc # NoProc THEN kill(procs, currentProc) ELSE procs
  /\ UNCHANGED <<currentProc, previewTimer, lastPreviewMetrics, lastClose,
                 srvVars, vizVars, genVars, covVars>>

InfNext ==
  \/ InferCommand
  \/ SchedulePreview
  \/ PreviewTimerFires
  \/ ProcCloses
  \/ Deactivate

(***************************************************************************)
(* extension.ts: the command utaGrammarLab.checkCoverage.                  *)
(***************************************************************************)
\* the index of the quote q that closes ([^q\\]|\\.)* read from index j, 0 when none
RECURSIVE closingQuote(_, _, _)
closingQuote(s, j, q) ==
  IF j > Len(s) THEN 0
  ELSE IF Ch(s, j) = q THEN j
  ELSE IF Ch(s, j) = "\\"
  THEN (IF j + 1 <= Len(s) /\ Ch(s, j + 1) # "\n" THEN closingQuote(s, j + 2, q) ELSE 0)
  ELSE closingQuote(s, j + 1, q)

\* gram.matchAll(/'([^'\\]|\\.)+'/g), each match without its quotes
RECURSIVE quotedTerminalsFrom(_, _)
quotedTerminalsFrom(gram, i) ==
  IF i > Len(gram) THEN {}
  ELSE LET e == IF Ch(gram, i) = "'" THEN closingQuote(gram, i + 1, "'") ELSE 0
       IN  IF e > i + 1
           THEN {SubSeq(gram, i + 1, e - 1)} \cup quotedTerminalsFrom(gram, e + 1)
           ELSE quotedTerminalsFrom(gram, i + 1)

extractQuotedTerminalsFromGrammar(gram) == quotedTerminalsFrom(gram, 1)

\* the operators and the punctuation of TOKENS_RE
TwoCharOps ==
  {"==", "!=", "<=", ">=", "&&", "||", "+=", "-=", "*=", "/=", "%=", "++", "--", "->",
   "::", "<<", ">>"}
OneCharOps ==
  {"<", ">", "=", "+", "-", "*", "/", "%", "^", "&", "|", "~", "!",
   "(", ")", "{", "}", "[", "]", ";", ",", ".", ":", "?"}

\* the index after the token TOKENS_RE matches at index i, i when it matches none:
\* a string, an identifier, a number, an operator, a punctuation character
tokenEnd(line, i) ==
  LET c == Ch(line, i)
      q == IF c \in {"\"", "'"} THEN closingQuote(line, i + 1, c) ELSE 0
  IN  IF q # 0 THEN q + 1
      ELSE IF IsIdentStart(c) THEN skipIdent(line, i)
      ELSE IF c = "0" THEN i + 1
      ELSE IF InChars(c, DigitChars) THEN skipDigits(line, i)
      ELSE IF i < Len(line) /\ SubSeq(line, i, i + 1) \in TwoCharOps THEN i + 2
      ELSE IF c \in OneCharOps THEN i + 1
      ELSE i

\* line.match(TOKENS_RE) || []
RECURSIVE matchTokens(_, _)
matchTokens(line, i) ==
  IF i > Len(line) THEN <<>>
  ELSE LET e == tokenEnd(line, i)
       IN  IF e > i THEN <<SubSeq(line, i, e - 1)>> \o matchTokens(line, e)
           ELSE matchTokens(line, i + 1)

\* IDENT_RE.test(t) || NUM_RE.test(t) || STR_RE.test(t) || allowed.has(t); the three
\* patterns are not anchored
tokenCovered(t, allowed) ==
  \/ \E i \in 1..Len(t) : IsIdentStart(Ch(t, i))
  \/ \E i \in 1..Len(t) : InChars(Ch(t, i), DigitChars)
  \/ \E i \in 1..Len(t) : Ch(t, i) \in {"\"", "'"} /\ closingQuote(t, i + 1, Ch(t, i)) # 0
  \/ t \in allowed

\* the test of the scan for one line: !ok && line.trim().length
lineUncovered(line, allowed) ==
  /\ \E k \in DOMAIN matchTokens(line, 1) : ~tokenCovered(matchTokens(line, 1)[k], allowed)
  /\ trim(line) # ""

\* totalLines === 0 ? 100 : Math.round((coveredLines - uncovered.length) / totalLines * 100),
\* Math.round(x) being floor(x + 1/2)
coveragePct(coveredLines, uncoveredLength, totalLines) ==
  IF totalLines = 0 THEN 100
  ELSE (200 * (coveredLines - uncoveredLength) + totalLines) \div (2 * totalLines)

\* the grammars and the source documents the command is run on; a document has at
\* least one line
CovGrammars == {"", "S -> ID '=' NUM", "E -> E '+' T | T '%' T\nT -> ID"}
SourceLines == {"x = 1", "a % b", "", "\"s\" + 07"}

RECURSIVE SourcesOf(_)
SourcesOf(n) ==
  IF n = 0 THEN {<<>>}
  ELSE {Append(d, l) : d \in SourcesOf(n - 1), l \in SourceLines}

CovSources == UNION {SourcesOf(n) : n \in 1..MaxSrcLines}

\* one run of the command, with a grammar document and a source file picked
CheckCoverage ==
  /\ covPc = "idle"
  /\ \E gram \in CovGrammars, src \in CovSources :
       LET allowed == extractQuotedTerminalsFromGrammar(gram)
           totalLines == Len(src)
           uncovered == SelectSeq([i \in 1..totalLines |-> i],
                                  LAMBDA i : lineUncovered(src[i], allowed))
           coveredLines == totalLines - Len(uncovered)
       IN  /\ covGrammar' = gram
           /\ covSource' = src
           /\ covDecorations' = uncovered
           /\ covMessage' = [pct |-> coveragePct(coveredLines, Len(uncovered), totalLines),
                             uncovered |-> Len(uncovered), total |-> totalLines]
           /\ covPc' = "done"
           /\ UNCHANGED <<srvVars, vizVars, genVars, infVars>>

(***************************************************************************)
(* Specifications, one per component.                                      *)
(***************************************************************************)
SpecServer == SrvInit /\ [][SrvNext]_vars

AnalyzeInit == VizInit /\ SrvIdle /\ GenIdle /\ InfIdle /\ CovIdle

SpecAnalyze == AnalyzeInit /\ [][VizNext]_vars

GenerateInit == GenInit /\ SrvIdle /\ VizIdle /\ InfIdle /\ CovIdle

SpecGenerate == GenerateInit /\ [][GenNext]_vars

InferenceInit == InfIdle /\ SrvIdle /\ VizIdle /\ GenIdle /\ CovIdle

SpecInference == InferenceInit /\ [][InfNext]_vars

CoverageInit == CovIdle /\ SrvIdle /\ VizIdle /\ GenIdle /\ InfIdle

SpecCoverage == CoverageInit /\ [][CheckCoverage]_vars

(***************************************************************************)
(* The analysis: claims C1, C8, C9, C10.                                   *)
(***************************************************************************)
\* C1: for the grammar with start E and productions E -> T E2,
\* E2 -> '+' T E2 | ε, T -> 'id', parseGrammar followed by firstFollow returns
\* nullable = {E2}, FIRST(E) = FIRST(T) = {'id'}, FIRST(E2) = {'+', ε},
\* FOLLOW(E) = FOLLOW(E2) = {$} and FOLLOW(T) = {'+', $}, and nothing else.
C1_ClassicGrammar ==
  vizPc = "done" /\ vizText = ClassicText =>
    /\ nullable = {"E2"}
    /\ DOMAIN FIRST = {"E", "E2", "T"}
    /\ FIRST["E"] = {"'id'"} /\ FIRST["T"] = {"'id'"} /\ FIRST["E2"] = {"'+'", "ε"}
    /\ DOMAIN FOLLOW = {"E", "E2", "T"}
    /\ FOLLOW["E"] = {"$"} /\ FOLLOW["E2"] = {"$"} /\ FOLLOW["T"] = {"'+'", "$"}

C1_Witness == vizPc = "done" /\ vizText = ClassicText /\ passes = 3

\* C8: for every grammar text, parseGrammar followed by firstFollow completes
\* without raising and returns nullable, FIRST and FOLLOW with a FIRST and a
\* FOLLOW entry for every nonterminal of the grammar (all empty for the empty
\* text), also when the start declaration names a symbol that is the left-hand
\* side of no production and occurs in no right-hand side.
C8_AlwaysCompleteResult ==
  /\ vizPc # "raised"
  /\ vizPc = "done" =>
       /\ DOMAIN FIRST = Range(vizG.nonterminals)
       /\ DOMAIN FOLLOW = Range(vizG.nonterminals)
       /\ nullable \subseteq Range(vizG.nonterminals)
       /\ vizText = "" => nullable = {} /\ FIRST = <<>> /\ FOLLOW = <<>>

\* the symbols of the grammar: every left-hand side and right-hand-side token
alphabet(g) == Range(g.nonterminals) \cup Range(prodsTokens(g.prods))

RECURSIVE sumOver(_, _)
sumOver(f, S) ==
  IF S = {} THEN 0
  ELSE LET a == CHOOSE a \in S : TRUE IN Cardinality(f[a]) + sumOver(f, S \ {a})

\* the number of elements of the three sets together
setsSize == Cardinality(nullable) + sumOver(FIRST, DOMAIN FIRST) + sumOver(FOLLOW, DOMAIN FOLLOW)

inLoop == vizPc \in {"test", "nullable", "first", "follow"}

C9_Bounded ==
  inLoop \/ vizPc = "done" =>
    /\ nullable \subseteq Range(vizG.nonterminals)
    /\ \A A \in DOMAIN FIRST : FIRST[A] \subseteq alphabet(vizG) \cup {"ε"}
    /\ \A A \in DOMAIN FOLLOW : FOLLOW[A] \subseteq alphabet(vizG) \cup {"ε", "$"}
    /\ passes <= setsSize + 1

C9_Step ==
  inLoop =>
    /\ nullable \subseteq nullable'
    /\ DOMAIN FIRST' = DOMAIN FIRST /\ \A A \in DOMAIN FIRST : FIRST[A] \subseteq FIRST'[A]
    /\ DOMAIN FOLLOW' = DOMAIN FOLLOW /\ \A A \in DOMAIN FOLLOW : FOLLOW[A] \subseteq FOLLOW'[A]
    /\ vizPc = "test" =>
         (vizPc' = "done" <=> passes >= 1 /\ <<nullable, FIRST, FOLLOW>> = passStart)

\* C9: the fixed-point loop of firstFollow terminates: across passes nullable and
\* every FIRST and FOLLOW set only grow, each stays within the symbols of the
\* grammar plus ε and $ (so the number of passes is at most the number of
\* elements added, plus one), and the loop exits after the first full pass
\* that adds nothing, and not before.
C9_LoopTerminates == []C9_Bounded /\ [][C9_Step]_vars

C9_Witness == vizPc = "done" /\ passes = 3 /\ setsSize >= 5

\* C10: the result of firstFollow is a fixed point: one more full pass of the
\* nullable, FIRST and FOLLOW updates over the returned sets adds nothing, and
\* a second run on the same grammar returns the sets of the first run.
C10_FixedPoint ==
  vizPc = "done" =>
    /\ nullablePass(vizG.prods, nullable) = nullable
    /\ firstPass(vizG.prods, FIRST) = FIRST
    /\ followPass(vizG.prods, FIRST, FOLLOW) = FOLLOW
    /\ lastRun.valid /\ lastRun.text = vizText =>
         /\ lastRun.nullable = nullable
         /\ lastRun.first = FIRST
         /\ lastRun.follow = FOLLOW

C10_Witness ==
  vizPc = "done" /\ lastRun.valid /\ lastRun.text = vizText /\ passes >= 3 /\ nullable # {}

(***************************************************************************)
(* The diagnostics: claims C2, C3, C4, C5.  The grammar a text denotes is  *)
(* read off the text with quoted and pattern literals kept whole, the way  *)
(* the documented format defines alternatives and tokens.                  *)
(***************************************************************************)
RECURSIVE denotedAltProds(_, _, _)
denotedAltProds(lhs, alts, i) ==
  IF alts = <<>> THEN <<>>
  ELSE <<[lhs |-> lhs, rhs |-> SelectSeq(tokenizeAlt(Head(alts)), NotEpsilonWord), line |-> i]>>
       \o denotedAltProds(lhs, Tail(alts), i)

RECURSIVE denotedFrom(_, _, _)
denotedFrom(lines, i, g) ==
  IF i >= Len(lines) THEN g
  ELSE LET line == trim(lines[i + 1])
           am == arrowMatch(line)
       IN  IF line = "" \/ startsWith(line, "//") \/ startsWith(line, "#")
           THEN denotedFrom(lines, i + 1, g)
           ELSE IF startMatch(line) # Null
           THEN denotedFrom(lines, i + 1, [g EXCEPT !.start = startMatch(line)])
           ELSE IF am.ok
           THEN denotedFrom(lines, i + 1,
                  [g EXCEPT !.prods = @ \o denotedAltProds(am.lhs, splitTopLevel(am.rhs, "|"), i)])
           ELSE denotedFrom(lines, i + 1, g)

denoted(text) == denotedFrom(splitLines(text), 0, [start |-> Null, prods |-> <<>>])

lhsOf(ps) == {ps[i].lhs : i \in DOMAIN ps}
usedOf(ps) == {t \in Range(prodsTokens(ps)) : isNonterminal(t)}

undefinedMsg(u) == "Undefined nonterminal '" \o u \o "'"
unreachableMsg(u) == "Unreachable nonterminal '" \o u \o "'"
leftRecursionMsg(u) == "Direct left recursion on '" \o u \o "'"

\* C2: for every grammar text the diagnostics hold exactly one 'Undefined
\* nonterminal' Error for each nonterminal that occurs in some right-hand side
\* and is the left-hand side of no production, and none for any other symbol;
\* for the text `S -> A` the whole list is one Error, naming A.
C2_UndefinedExactlyOnce ==
  LET ps == denoted(docText).prods
      undef == usedOf(ps) \ lhsOf(ps)
      errs == {i \in DOMAIN published : startsWith(published[i].message, "Undefined nonterminal")}
  IN  /\ \A u \in undef :
           Cardinality({i \in errs : /\ published[i].message = undefinedMsg(u)
                                     /\ published[i].severity = "Error"}) = 1
      /\ \A i \in errs : \E u \in undef : published[i].message = undefinedMsg(u)
      /\ docText = "S -> A" =>
           /\ Len(published) = 1
           /\ published[1].message = undefinedMsg("A")
           /\ published[1].severity = "Error"

\* the nonterminals reachable from the set S along edges A -> B, B a defined
\* nonterminal in a right-hand side of A
RECURSIVE reachableFrom(_, _)
reachableFrom(ps, S) ==
  LET more == S \cup {B \in lhsOf(ps) :
                        \E i \in DOMAIN ps : ps[i].lhs \in S /\ B \in Range(ps[i].rhs)}
  IN  IF more = S THEN S ELSE reachableFrom(ps, more)

\* the declared start symbol, or the first declared left-hand side
denotedStart(g) == IF g.start # Null THEN g.start ELSE g.prods[1].lhs

\* C3: for every grammar text the nonterminals reported with an 'Unreachable
\* nonterminal' Warning are exactly the defined nonterminals that cannot be
\* reached from the start symbol (the declared one, else the first left-hand
\* side) along edges A -> B, B a defined nonterminal in a right-hand side of
\* A; none when no nonterminal is defined; for start S, S -> 'x', Z -> 'y'
\* the result is exactly one Warning, for Z.
C3_UnreachableExactly ==
  LET g == denoted(docText)
      expected == IF g.prods = <<>> THEN {}
                  ELSE lhsOf(g.prods) \ reachableFrom(g.prods, {denotedStart(g)})
      warns == {i \in DOMAIN published : startsWith(published[i].message, "Unreachable nonterminal")}
  IN  /\ {published[i].message : i \in warns} = {unreachableMsg(d) : d \in expected}
      /\ \A i \in warns : published[i].severity = "Warning"
      /\ docText \in {"S -> 'x'\nZ -> 'y'", "start: S;\nS -> 'x'\nZ -> 'y'"} =>
           /\ Len(published) = 1
           /\ published[1].message = unreachableMsg("Z")

\* C4: for every grammar text the diagnostics hold exactly one 'Direct left
\* recursion' Error for each production A -> α whose right-hand side is not
\* empty and starts with A, on that production's line with columns 0 to 80,
\* and none for any other production; E -> E '+' T yields exactly one and
\* E -> T '+' E yields none.
C4_LeftRecursionExactly ==
  LET ps == denoted(docText).prods
      lr == {i \in DOMAIN ps : Len(ps[i].rhs) > 0 /\ ps[i].rhs[1] = ps[i].lhs}
      errs == {i \in DOMAIN published : startsWith(published[i].message, "Direct left recursion")}
      isFor(d, p) == /\ d.message = leftRecursionMsg(p.lhs)
                     /\ d.severity = "Error"
                     /\ d.range = Loc(p.line, 0, p.line, 80)
  IN  /\ Cardinality(errs) = Cardinality(lr)
      /\ \A i \in lr :
           Cardinality({j \in errs : isFor(published[j], ps[i])})
             = Cardinality({k \in lr : ps[k].lhs = ps[i].lhs /\ ps[k].line = ps[i].line})
      /\ \A j \in errs : \E i \in lr : isFor(published[j], ps[i])
      /\ docText = "E -> E '+' T" => Cardinality(errs) = 1
      /\ docText = "E -> T '+' E" => Cardinality(errs) = 0

\* the quoted literals '...' of a string, left to right
RECURSIVE quotedLiterals(_)
quotedLiterals(str) ==
  LET q == {i \in 1..Len(str) : Ch(str, i) = "'"}
  IN  IF q = {} THEN {}
      ELSE LET close == {i \in q : i > Min(q)}
           IN  IF close = {} THEN {}
               ELSE {SubSeq(str, Min(q), Min(close))}
                    \cup quotedLiterals(SubSeq(str, Min(close) + 1, Len(str)))

\* the quoted literals with an embedded `|` or space, of a set of right-hand sides
embeddedLiterals(rhss) ==
  {lit \in UNION {quotedLiterals(r) : r \in rhss} :
     \E i \in 1..Len(lit) : Ch(lit, i) \in {"|", " "}}

\* the right-hand sides of the production lines of a text
lineRhs(text) ==
  LET lines == splitLines(text)
      isProd(l) == /\ l # "" /\ ~startsWith(l, "//") /\ ~startsWith(l, "#")
                   /\ startMatch(l) = Null /\ arrowMatch(l).ok
  IN  {arrowMatch(trim(lines[i])).rhs : i \in {j \in DOMAIN lines : isProd(trim(lines[j]))}}

\* the rule bodies the generator's parser matches in a text
RECURSIVE bodiesFrom(_, _)
bodiesFrom(text, lastIndex) ==
  LET starts == {b \in lastIndex..Len(text) :
                   /\ b = 1 \/ Ch(text, b - 1) = "\n"
                   /\ ruleMatchAt(text, b).ok}
  IN  IF starts = {} THEN {}
      ELSE LET m == ruleMatchAt(text, Min(starts))
           IN  {m.body} \cup bodiesFrom(text, m.next)

RECURSIVE rulesTokens(_)
rulesTokens(rules) ==
  IF rules = <<>> THEN {}
  ELSE UNION {Range(Head(rules).alts[i]) : i \in DOMAIN Head(rules).alts}
       \cup rulesTokens(Tail(rules))

\* C5: in every grammar parser of the program (diagnostics, FIRST/FOLLOW
\* analysis, generator) a quoted literal with an embedded `|` or an embedded
\* space is one terminal of its alternative: the `|` starts no new
\* alternative and the space splits no token.
C5_LiteralsKeptWhole ==
  /\ \A lit \in embeddedLiterals(lineRhs(docText)) :
       /\ lit \in Range(prodsTokens(srvParseGrammar(docText).prods))
       /\ lit \in Range(prodsTokens(vizParseGrammar(docText).prods))
  /\ \A lit \in embeddedLiterals(bodiesFrom(cleanedText(docText), 1)) :
       lit \in rulesTokens(parseProductions(docText))

(***************************************************************************)
(* Claims about the generator (extension.ts).                              *)
(***************************************************************************)
\* the calls of expand that have made a further call: every frame but the innermost
callers == {i \in DOMAIN genStack : i < Len(genStack)}

\* C6: the nesting of expand calls is bounded by maxDepth: a call expand(sym, depth)
\* with depth > maxDepth never makes a further recursive call to expand.
C6_NoCallPastMaxDepth ==
  \A i \in callers : genStack[i].depth <= genMaxDepth

\* every alternative an expand call in progress has chosen is one of the alternatives
\* the rules hold for its nonterminal
chosenExists ==
  \A i \in DOMAIN genStack :
    genStack[i].mode = "children" =>
      /\ rulesHas(genRules, genStack[i].sym)
      /\ \E j \in DOMAIN rulesGet(genRules, genStack[i].sym) :
           rulesGet(genRules, genStack[i].sym)[j] = genStack[i].chosen

undefinedFindings(g) == Range(g.used) \ Range(g.defined)
unreachableFindings(g) ==
  IF srvStartOf(g) = Null THEN {}
  ELSE Range(g.defined) \ ({srvStartOf(g)} \cup reachableFrom(g.prods, {srvStartOf(g)}))
leftRecursionFindings(g) ==
  {i \in DOMAIN g.prods : Len(g.prods[i].rhs) > 0 /\ g.prods[i].rhs[1] = g.prods[i].lhs}

publishedWith(message) == {i \in DOMAIN published : published[i].message = message}

\* C11: all defects are reported together: the published list holds every finding
\* of the undefined-nonterminal check, of the unreachable-nonterminal check and of
\* the direct-left-recursion check; no finding suppresses a finding of another
\* check or a later finding of the same check.
C11_AllReported ==
  LET g == srvParseGrammar(docText)
  IN  /\ \A u \in undefinedFindings(g) : publishedWith(undefinedMsg(u)) # {}
      /\ \A d \in unreachableFindings(g) : publishedWith(unreachableMsg(d)) # {}
      /\ \A i \in leftRecursionFindings(g) :
           \E j \in publishedWith(leftRecursionMsg(g.prods[i].lhs)) :
             published[j].range.start.line = g.prods[i].line
      /\ Len(published) = Cardinality(undefinedFindings(g))
                          + Cardinality(unreachableFindings(g))
                          + Cardinality(leftRecursionFindings(g))

\* a document with findings of all three checks, two of them of the same check
C11_Witness ==
  /\ docText = "S -> A\nE -> E '+' T"
  /\ publishedWith(undefinedMsg("A")) # {}
  /\ publishedWith(undefinedMsg("T")) # {}
  /\ publishedWith(unreachableMsg("E")) # {}
  /\ publishedWith(leftRecursionMsg("E")) # {}
  /\ Len(published) = 4

(***************************************************************************)
(* The start symbol: claim C12.                                            *)
(***************************************************************************)
\* the lines of a text that are no blank and no comment, trimmed, by line number
contentLines(text) ==
  LET lines == splitLines(text)
      isContent(l) == l # "" /\ ~startsWith(l, "//") /\ ~startsWith(l, "#")
  IN  [i \in {j \in DOMAIN lines : isContent(trim(lines[j]))} |-> trim(lines[i])]

\* the start symbol the text declares: the last start declaration, else the
\* left-hand side of the first production line, else null
expectedStart(text) ==
  LET cl == contentLines(text)
      decls == {i \in DOMAIN cl : startMatch(cl[i]) # Null}
      prodLines == {i \in DOMAIN cl : startMatch(cl[i]) = Null /\ arrowMatch(cl[i]).ok}
  IN  IF decls # {} THEN startMatch(cl[Max(decls)])
      ELSE IF prodLines # {} THEN arrowMatch(cl[Min(prodLines)]).lhs
      ELSE Null

vizStarted == vizPc \notin {"idle", "message"}

\* parseGrammar has returned and firstFollow has not entered its loop, or has raised
vizParsed == vizPc = "raised" \/ (vizPc = "test" /\ passes = 0)

\* C12: the start symbol of a parsed grammar is the identifier of the last start
\* declaration of the text, else the first production left-hand side in source
\* order, else null; the reachability check and the FOLLOW seeding use this symbol.
C12_StartSymbol ==
  /\ vizParsed =>
       LET st == expectedStart(vizText)
           g == srvParseGrammar(vizText)
       IN  /\ vizG.start = st
           /\ srvStartOf(g) = st
           /\ Range(findUnreachable(g)) =
                IF st = Null THEN {}
                ELSE Range(g.defined) \ ({st} \cup reachableFrom(g.prods, {st}))
           /\ vizPc = "test" =>
                \A A \in DOMAIN FOLLOW : FOLLOW[A] = IF A = st THEN {"$"} ELSE {}
  /\ vizPc = "done" /\ vizG.start # Null => "$" \in FOLLOW[vizG.start]

\* two start declarations: the later one, Z, is the start symbol
C12_Witness ==
  /\ vizPc = "done"
  /\ vizText = "start: S;\nS -> Z\nZ -> 'y'\nstart: Z"
  /\ vizG.start = "Z"
  /\ FOLLOW["Z"] = {"$"}
  /\ findUnreachable(srvParseGrammar(vizText)) = <<"S">>

(***************************************************************************)
(* The epsilon marker: claim C13.                                          *)
(***************************************************************************)
\* `ε`, or `epsilon` in any letter case
isEpsilonMarker(tok) == tok = "ε" \/ toLowerCase(tok) = "epsilon"

\* C13: a right-hand-side token that is `ε` or equals `epsilon` ignoring case is the
\* Epsilon marker for the analyzer and the generator alike: it is in neither the
\* nonterminal nor the terminal set, the word never is an element of a FIRST or
\* FOLLOW set, a production whose right-hand side is that single token makes its
\* left-hand side nullable, and the generator expands the token to the empty string.
C13_EpsilonIsMarker ==
  vizStarted =>
    \A m \in {t \in Range(prodsTokens(vizG.prods)) : isEpsilonMarker(t)} :
      /\ m \notin Range(vizG.nonterminals)
      /\ m \notin Range(vizG.terminals)
      /\ m # "ε" => /\ \A A \in DOMAIN FIRST : m \notin FIRST[A]
                    /\ \A A \in DOMAIN FOLLOW : m \notin FOLLOW[A]
      /\ vizPc = "done" =>
           \A i \in DOMAIN vizG.prods : vizG.prods[i].rhs = <<m>> => vizG.prods[i].lhs \in nullable
      /\ \A f \in expandEnter(parseProductions(vizText), MaxGenDepth, m, 1) :
           f.mode = "ret" /\ f.val = ""

(***************************************************************************)
(* The generator's grammar and the builder's: claim C14.                   *)
(***************************************************************************)
\* a text in the documented line format: every line that is no blank and no
\* comment is a start declaration or a production line without a semicolon
inLineFormat(text) ==
  LET cl == contentLines(text)
  IN  \A i \in DOMAIN cl :
        \/ startMatch(cl[i]) # Null
        \/ arrowMatch(cl[i]).ok /\ indexOf(cl[i], ";") = 0

\* the alternatives of a left-hand side in a production list, in order
altsOfProds(ps, lhs) ==
  LET own == SelectSeq(ps, LAMBDA p : p.lhs = lhs)
  IN  [i \in DOMAIN own |-> own[i].rhs]

\* the alternatives of a rule of the generator, the epsilon marker dropped
altsOfRule(rule) ==
  [i \in DOMAIN rule.alts |-> SelectSeq(rule.alts[i], NotEpsilonWord)]

genParsed == genPc \notin {"idle", "call"}

\* C14: the generator expands the grammar the builder yields: for every text in the
\* documented line format the rules of generateFromGrammar have the left-hand sides
\* of the builder's production list, each with the same alternatives; a production
\* line defines alternatives for its own left-hand side only and a `start: X;` line
\* defines no production.
C14_SameGrammar ==
  genParsed /\ inLineFormat(genText) =>
    LET ps == denoted(genText).prods
    IN  /\ {genRules[i].lhs : i \in DOMAIN genRules} = lhsOf(ps)
        /\ \A i \in DOMAIN genRules : altsOfRule(genRules[i]) = altsOfProds(ps, genRules[i].lhs)

(***************************************************************************)
(* The analysis and the order of the productions: claim C15.               *)
(***************************************************************************)
\* the production lists that hold the productions of ps in another order
permutationsOf(ps) ==
  {[i \in DOMAIN ps |-> ps[f[i]]] : f \in Permutations(DOMAIN ps)}

\* C15: the analysis does not depend on production order: for a fixed start symbol
\* and every permutation of the production list, firstFollow returns the same
\* nullable set and the same FIRST and FOLLOW set for every nonterminal.
C15_OrderIndependent ==
  vizPc = "done" /\ Len(vizG.prods) <= MaxPermuted =>
    \A qs \in permutationsOf(vizG.prods) :
      firstFollow([vizG EXCEPT !.prods = qs]) = <<nullable, FIRST, FOLLOW>>

\* three productions, analysed in their six orders
C15_Witness ==
  /\ vizPc = "done"
  /\ vizText = "S -> A\nA → S Z | epsilon"
  /\ Cardinality(permutationsOf(vizG.prods)) = 6
  /\ \E qs \in permutationsOf(vizG.prods) :
       /\ qs[1].lhs = "A" /\ qs[3].lhs = "S"
       /\ firstFollow([vizG EXCEPT !.prods = qs]) = <<nullable, FIRST, FOLLOW>>
  /\ FOLLOW["Z"] = {"$"}

(***************************************************************************)
(* What the sets mean: claims C16, C17, C18, C19.                          *)
(***************************************************************************)
\* the least set N with A in N iff some production A -> α has α empty, α exactly
\* the Epsilon marker, or every symbol of α a nonterminal in N
RECURSIVE leastNullableFrom(_, _)
leastNullableFrom(ps, N) ==
  LET more == N \cup {ps[i].lhs : i \in {j \in DOMAIN ps :
                        \/ ps[j].rhs = <<>>
                        \/ Len(ps[j].rhs) = 1 /\ isEpsilonMarker(ps[j].rhs[1])
                        \/ \A k \in DOMAIN ps[j].rhs :
                             isNonterminal(ps[j].rhs[k]) /\ ps[j].rhs[k] \in N}}
  IN  IF more = N THEN N ELSE leastNullableFrom(ps, more)

leastNullable(ps) == leastNullableFrom(ps, {})

\* C16: at termination of firstFollow the nullable set is the least set N such that
\* A is in N iff some production A -> α has α empty, or α exactly the Epsilon
\* marker, or every symbol of α a nonterminal in N; no nonterminal is nullable on
\* any other ground.
C16_NullableIsLeast ==
  vizPc = "done" => nullable = leastNullable(vizG.prods)
\* the productions with the Epsilon marker read as the empty string
markerFree(ps) == [i \in DOMAIN ps |-> [ps[i] EXCEPT !.rhs = SelectSeq(@, NotEpsilonWord)]]

\* the nonterminals that derive the empty string
derivesEmpty(ps) == leastNullable(markerFree(ps))

\* the symbols a string of symbols can begin with after its leading nonterminals
\* that derive the empty string are erased: alpha[k] for the k up to the first
\* symbol that cannot vanish
leading(alpha, N) ==
  {alpha[k] : k \in {j \in DOMAIN alpha : \A h \in 1..(j - 1) : alpha[h] \in N}}

\* the terminals some derivation from each nonterminal begins with
RECURSIVE beginsFrom(_, _, _)
beginsFrom(ps, N, R) ==
  LET step(A) == R[A] \cup UNION {
                   {t \in leading(ps[i].rhs, N) : ~isNonterminal(t)}
                   \cup UNION {R[B] : B \in {X \in leading(ps[i].rhs, N) : X \in DOMAIN R}}
                   : i \in {j \in DOMAIN ps : ps[j].lhs = A}}
      more == [A \in DOMAIN R |-> step(A)]
  IN  IF more = R THEN R ELSE beginsFrom(ps, N, more)

begins(g) ==
  beginsFrom(markerFree(g.prods), derivesEmpty(g.prods), [A \in Range(g.nonterminals) |-> {}])

\* C17: at termination of firstFollow, for every nonterminal A, a terminal t is in
\* FIRST(A) iff some derivation from A produces a string beginning with t, and ε is
\* in FIRST(A) iff A can derive the empty string, iff A is in the returned nullable set.
C17_FirstIsDerivable ==
  vizPc = "done" =>
    \A A \in Range(vizG.nonterminals) :
      /\ FIRST[A] \ {"ε"} = begins(vizG)[A]
      /\ "ε" \in FIRST[A] <=> A \in derivesEmpty(vizG.prods)
      /\ "ε" \in FIRST[A] <=> A \in nullable
\* the nonterminals that occur in some sentential form derived from the set S
RECURSIVE occurringFrom(_, _)
occurringFrom(ps, S) ==
  LET more == S \cup {X \in UNION {Range(ps[i].rhs) : i \in {j \in DOMAIN ps : ps[j].lhs \in S}} :
                        isNonterminal(X)}
  IN  IF more = S THEN S ELSE occurringFrom(ps, more)

\* the length of the longest right-hand side
MaxRhs(ps) == IF ps = <<>> THEN 0 ELSE Max({Len(ps[i].rhs) : i \in DOMAIN ps})

\* what can follow each nonterminal in a sentential form derived from the start
\* symbol: the productions of the occurring nonterminals only
RECURSIVE followsFrom(_, _, _, _, _)
followsFrom(ps, occ, N, R, FO) ==
  LET after(i, k) == SubSeq(ps[i].rhs, k + 1, Len(ps[i].rhs))
      heads(beta) == {t \in leading(beta, N) : ~isNonterminal(t)}
                     \cup UNION {R[X] : X \in {Y \in leading(beta, N) : Y \in DOMAIN R}}
      vanishes(beta) == \A h \in DOMAIN beta : beta[h] \in N
      step(B) == FO[B] \cup UNION {
                   heads(after(c[1], c[2]))
                   \cup (IF vanishes(after(c[1], c[2])) THEN FO[ps[c[1]].lhs] ELSE {})
                   : c \in {d \in (DOMAIN ps) \X (1..MaxRhs(ps)) :
                              /\ ps[d[1]].lhs \in occ
                              /\ d[2] <= Len(ps[d[1]].rhs)
                              /\ ps[d[1]].rhs[d[2]] = B}}
      more == [B \in DOMAIN FO |-> step(B)]
  IN  IF more = FO THEN FO ELSE followsFrom(ps, occ, N, R, more)

follows(g) ==
  LET ps == markerFree(g.prods)
      empty == [A \in Range(g.nonterminals) |-> {}]
  IN  IF g.start = Null THEN empty
      ELSE followsFrom(ps, occurringFrom(ps, {g.start}), derivesEmpty(g.prods), begins(g),
                       [empty EXCEPT ![g.start] = {"$"}])

\* C18: at termination of firstFollow, for every nonterminal X, FOLLOW(X) is exactly
\* the set of terminals that can immediately follow X in some sentential form derived
\* from the start symbol, with $ exactly when X can be the last symbol of such a form;
\* a nonterminal that occurs in no derivation from the start symbol has an empty FOLLOW.
C18_FollowIsDerivable ==
  vizPc = "done" => FOLLOW = follows(vizG)
\* C19: in every state of the fixed-point loop and in the returned result, every
\* element of a FIRST set is a terminal or the marker ε (never a nonterminal), every
\* element of a FOLLOW set is a terminal or $ (never ε and never a nonterminal), and
\* every member of nullable is the left-hand side of some production.
C19_SetsWellTyped ==
  inLoop \/ vizPc = "done" =>
    /\ \A A \in DOMAIN FIRST : FIRST[A] \subseteq Range(vizG.terminals) \cup {"ε"}
    /\ \A A \in DOMAIN FOLLOW : FOLLOW[A] \subseteq Range(vizG.terminals) \cup {"$"}
    /\ nullable \subseteq lhsOf(vizG.prods)
(***************************************************************************)
(* Where an unreachable nonterminal is reported: claim C20.                *)
(***************************************************************************)
\* the line (0-based) of the first production of a left-hand side
firstProductionLine(ps, lhs) == ps[Min({i \in DOMAIN ps : ps[i].lhs = lhs})].line

\* C20: for every unreachable defined nonterminal, the range of its Warning lies on
\* the source line of that nonterminal's first production, for every form of
\* production line the builder accepts (no, one or several spaces before the arrow;
\* `->` or `→`).
C20_WarningOnFirstProduction ==
  LET g == srvParseGrammar(docText)
  IN  \A d \in Range(g.defined) :
        \A i \in publishedWith(unreachableMsg(d)) :
          /\ published[i].range.start.line = firstProductionLine(g.prods, d)
          /\ published[i].range.end.line = firstProductionLine(g.prods, d)

(***************************************************************************)
(* The alternative pickAlt returns: claim C21.                             *)
(***************************************************************************)
\* an alternative that is the single Epsilon marker
isEpsilonAlt(a) == Len(a) = 1 /\ isEpsilonMarker(a[1])

\* the positions in alts of the candidates the selection policy leaves: the
\* non-epsilon alternatives when there are any, and past the depth threshold those
\* of them that do not start with the nonterminal itself when there are any
remainingCandidates(alts, lhs, depth) ==
  LET nonEps == {j \in DOMAIN alts : ~isEpsilonAlt(alts[j])}
      kept == IF nonEps # {} THEN nonEps ELSE DOMAIN alts
      safe == {j \in kept : alts[j][1] # lhs}
  IN  IF depth > DepthThreshold /\ safe # {} THEN safe ELSE kept

\* the candidates that are among the first ceil(n/2) in some ascending order by length
shorterHalf(alts, cands) ==
  {j \in cands :
     Cardinality({k \in cands : Len(alts[k]) < Len(alts[j])}) < (Cardinality(cands) + 1) \div 2}

\* the alternatives the policy allows expand(sym, depth) to choose
allowedAlts(alts, lhs, depth) ==
  LET cands == remainingCandidates(alts, lhs, depth)
  IN  {alts[j] : j \in IF depth > DepthThreshold THEN shorterHalf(alts, cands) ELSE cands}

\* C21: for a nonterminal with at least one alternative, the alternative pickAlt
\* returns is never an epsilon alternative when a non-epsilon one exists; at
\* depth > 3 it never starts with the nonterminal itself when a candidate not
\* starting with it exists, and it is one of the first ceil(n/2) of the n remaining
\* candidates by ascending length; at depth <= 3 any remaining candidate can be
\* returned.
C21_PickAltPolicy ==
  \A i \in DOMAIN genStack :
    genStack[i].mode = "children" =>
      LET f == genStack[i]
          alts == rulesGet(genRules, f.sym)
      IN  /\ f.chosen \in allowedAlts(alts, f.sym, f.depth)
          /\ f.depth <= DepthThreshold =>
               \A a \in allowedAlts(alts, f.sym, f.depth) :
                 [defined |-> TRUE, alt |-> a] \in pickAlt(alts, f.sym, f.depth)

(***************************************************************************)
(* The top-level entry of the generator: claim C22.                        *)
(***************************************************************************)
\* the statement case: the rule map has rules for both Stmt and StmtList
statementCase == rulesHas(genRules, "Stmt") /\ rulesHas(genRules, "StmtList")

\* the symbol the top-level entry is to expand
expectedRoot ==
  LET names == [i \in DOMAIN genRules |-> genRules[i].lhs]
      same == {i \in DOMAIN names : toLowerCase(names[i]) = toLowerCase(genStart)}
  IN  IF statementCase THEN "Stmt"
      ELSE IF same # {} THEN names[Min(same)]
      ELSE IF names # <<>> THEN names[1]
      ELSE "start"

endsWithTerminator(str) == str # "" /\ Ch(str, Len(str)) = ";"

\* while the generator runs: the outermost expand call is for the expected symbol at
\* depth 0, and there are 2..4 such calls in the statement case, one otherwise
C22_RootCalls ==
  genParsed /\ genPc # "raised" =>
    /\ genRoot.stmts = statementCase
    /\ genRoot.total \in (IF statementCase THEN 2..4 ELSE {1})
    /\ Len(genRoot.results) <= genRoot.total
    /\ genStack # <<>> => genStack[1].sym = expectedRoot /\ genStack[1].depth = 0

\* the value returned: the statements, each with its terminator, one per line; or
\* the one expansion
C22_Returned ==
  genPc = "returned" =>
    /\ Len(genRoot.results) = genRoot.total
    /\ IF statementCase
       THEN LET ls == splitChar(genOut, "\n")
            IN  /\ Len(ls) = genRoot.total
                /\ \A i \in DOMAIN ls :
                     /\ endsWithTerminator(ls[i])
                     /\ ls[i] \in {genRoot.results[i], genRoot.results[i] \o ";"}
       ELSE genOut = genRoot.results[1]

\* a result is recorded only when the outermost call returns, and is its value
C22_ResultStep ==
  genRoot'.results # genRoot.results =>
    /\ Len(genStack) = 1
    /\ genStack[1].mode = "ret"
    /\ genRoot'.results = Append(genRoot.results, genStack[1].val)

\* C22: when the rules hold both Stmt and StmtList, generateFromGrammar returns N
\* statements joined by newlines, N in {2, 3, 4}, each an expansion of Stmt at
\* depth 0 and each ending with `;`, whatever start-symbol name was passed; in every
\* other case it expands exactly once, at depth 0, from the rule whose name equals
\* the start-symbol name ignoring case, else from the first rule, else from the
\* literal name `start`.
C22_TopLevelEntry ==
  /\ [](C22_RootCalls /\ C22_Returned)
  /\ [][C22_ResultStep]_vars

\* three statements were returned although the start symbol passed names no rule
C22_Witness ==
  /\ genPc = "returned"
  /\ genStart = "Expr"
  /\ statementCase
  /\ genOut = "x0 = 1;\nx99 = 9;\nx0 = 9;"

\* one expansion from the rule S, found by the start-symbol name s ignoring case
\* although it is not the first rule
C22_WitnessByName ==
  /\ genPc = "returned"
  /\ genStart = "s"
  /\ genText = "start: S;\nS -> 'a|b' ID ;"
  /\ expectedRoot = "S"
  /\ genRules[1].lhs = "start"

(***************************************************************************)
(* Diagnostics are recomputed on every change: claim C23.                  *)
(***************************************************************************)
\* the messages of the findings of the three checks on a text
findingMessages(text) ==
  LET g == srvParseGrammar(text)
  IN  {undefinedMsg(u) : u \in undefinedFindings(g)}
      \cup {unreachableMsg(d) : d \in unreachableFindings(g)}
      \cup {leftRecursionMsg(g.prods[i].lhs) : i \in leftRecursionFindings(g)}

\* the published diagnostics are those of the current text: one send per event, the
\* list a function of the text, no diagnostic of an earlier text in it
C23_Current ==
  /\ sends = events
  /\ published = diagnose(docText)
  /\ \A i \in DOMAIN published : published[i].message \in findingMessages(docText)

\* every change event is answered by exactly one sendDiagnostics
C23_EventStep == events' = events + 1 /\ sends' = sends + 1

\* C23: diagnostics are recomputed from scratch on every change: each change event
\* causes exactly one sendDiagnostics, the list sent is a function of that event's
\* text only, and after the last event the published diagnostics are those of the
\* current text, with nothing carried over from an earlier text.
C23_FreshPerChange ==
  /\ []C23_Current
  /\ [][C23_EventStep]_vars

\* after three events, the second of which left a two-line document, a document of
\* one line without defects has no diagnostics
C23_Witness ==
  /\ events = 3
  /\ sends = 3
  /\ docText = "S -> 'x'"
  /\ published = <<>>

(***************************************************************************)
(* The inference child processes: claim C24.                               *)
(***************************************************************************)
\* the processes that are running and were not killed
runningUnkilled == {p \in DOMAIN procs : procs[p].status = "running"}

\* C24: for every interleaving of runInference calls and close events at most one
\* inference child process is running un-killed: when runInference spawns a process
\* every earlier one has been killed or has closed, and while a spawned process is
\* running and not killed, currentProc refers to it.
C24_OneRunningProcess ==
  /\ Cardinality(runningUnkilled) <= 1
  /\ \A p \in runningUnkilled : currentProc = p

\* the first half alone: never two processes running un-killed
C24_AtMostOne == Cardinality(runningUnkilled) <= 1

\* the second half alone: currentProc refers to the process running un-killed
C24_CurrentRefers == \A p \in runningUnkilled : currentProc = p

(***************************************************************************)
(* Expansion of an epsilon-only nonterminal: claim C25.                    *)
(***************************************************************************)
\* the nonterminal has alternatives and each is the single marker `ε`
epsilonOnly(rules, sym) ==
  /\ rulesHas(rules, sym)
  /\ rulesGet(rules, sym) # <<>>
  /\ \A j \in DOMAIN rulesGet(rules, sym) : rulesGet(rules, sym)[j] = <<"ε">>

\* C25: a nonterminal all of whose alternatives are the single Epsilon marker
\* expands to the empty string at every depth <= maxDepth, whatever its name: no
\* synthesized identifier, number or statement stands in for the empty derivation.
C25_EpsilonOnlyIsEmpty ==
  \A i \in DOMAIN genStack :
    ( /\ genStack[i].mode = "ret"
      /\ epsilonOnly(genRules, genStack[i].sym)
      /\ genStack[i].depth <= genMaxDepth ) => genStack[i].val = ""

(***************************************************************************)
(* Trailing comments on production lines: claim C26.                       *)
(***************************************************************************)
\* a line without its trailing `//` comment; a comment line is left as it is
withoutTrailingComment(l) ==
  IF isSlashComment(l) \/ indexOf(l, "//") = 0 THEN l
  ELSE SubSeq(l, 1, indexOf(l, "//") - 1)

\* the text with the trailing comment of every line removed
withoutTrailingComments(text) ==
  LET ls == splitLines(text)
  IN  joinLines([i \in DOMAIN ls |-> withoutTrailingComment(ls[i])])

messagesOf(diags) == {diags[i].message : i \in DOMAIN diags}

\* C26: a trailing `//` comment on a production line contributes nothing to the
\* grammar: its tokens are in no right-hand side, not in the used-nonterminal set
\* and not in the terminal set, they cause no Undefined-nonterminal diagnostic and
\* add no element to a FIRST or FOLLOW set; text and text without the comment
\* give the same grammar, diagnostics and sets.
C26_TrailingCommentIgnored ==
  LET bare == withoutTrailingComments(vizText)
  IN  bare # vizText =>
        /\ vizParsed =>
             /\ srvParseGrammar(vizText) = srvParseGrammar(bare)
             /\ messagesOf(diagnose(vizText)) = messagesOf(diagnose(bare))
             /\ vizG = vizParseGrammar(bare)
        /\ vizPc = "done" => <<nullable, FIRST, FOLLOW>> = firstFollow(vizParseGrammar(bare))

\* the two components one by one
C26_ServerPart ==
  vizParsed =>
    LET bare == withoutTrailingComments(vizText)
    IN  /\ srvParseGrammar(vizText) = srvParseGrammar(bare)
        /\ messagesOf(diagnose(vizText)) = messagesOf(diagnose(bare))

C26_AnalysisPart ==
  vizPc = "done" /\ withoutTrailingComments(vizText) # vizText =>
    <<nullable, FIRST, FOLLOW>> = firstFollow(vizParseGrammar(withoutTrailingComments(vizText)))

(***************************************************************************)
(* Expansion of a plain terminal: claim C27.                               *)
(***************************************************************************)
\* a right-hand-side token that is not quoted, not a pattern literal, not
\* uppercase-initial and not the Epsilon marker
isPlainTerminal(tok) ==
  /\ tok # ""
  /\ ~isEpsilonMarker(tok)
  /\ ~isQuoted(tok)
  /\ ~isRegex(tok)
  /\ ~IsUpperCh(Ch(tok, 1))

\* C27: a plain terminal of a right-hand side, such as `c` or `+`, expands to its
\* own text; only ID, NUM, STR and pattern literals expand to synthesized values.
C27_PlainTerminalIsItself ==
  \A i \in DOMAIN genStack :
    ( /\ i > 1
      /\ genStack[i].mode = "ret"
      /\ isPlainTerminal(genStack[i].sym) ) => genStack[i].val = genStack[i].sym

(***************************************************************************)
(* The coverage check: claim C28.                                          *)
(***************************************************************************)
\* a token that is, as a whole, an identifier, a number or a string
isIdentifierToken(t) == t # "" /\ IsIdentStart(Ch(t, 1)) /\ skipIdent(t, 1) > Len(t)
isNumberToken(t) == t # "" /\ skipDigits(t, 1) > Len(t)
isStringToken(t) ==
  Len(t) >= 2 /\ Ch(t, 1) \in {"\"", "'"} /\ closingQuote(t, 2, Ch(t, 1)) = Len(t)

\* the lines of the source document that are to be marked uncovered: non-blank, with
\* a token that is no identifier, number or string and no quoted terminal of the grammar
linesToMark ==
  {i \in DOMAIN covSource :
     /\ trim(covSource[i]) # ""
     /\ \E k \in DOMAIN matchTokens(covSource[i], 1) :
          LET t == matchTokens(covSource[i], 1)[k]
          IN  /\ ~isIdentifierToken(t) /\ ~isNumberToken(t) /\ ~isStringToken(t)
              /\ t \notin extractQuotedTerminalsFromGrammar(covGrammar)}

\* the lines highlighted are the lines to mark, each once
C28_Marking ==
  covPc = "done" =>
    /\ Range(covDecorations) = linesToMark
    /\ Len(covDecorations) = Cardinality(linesToMark)

\* the count reported is the number of highlighted lines
C28_Count == covPc = "done" => covMessage.uncovered = Len(covDecorations)

\* the percentage reported is round(100 * lines not marked / lines), within 0..100
C28_Percentage ==
  covPc = "done" /\ Len(covSource) > 0 =>
    LET total == Len(covSource)
        notMarked == total - Len(covDecorations)
    IN  /\ covMessage.pct \in 0..100
        /\ 2 * total * covMessage.pct <= 200 * notMarked + total
        /\ 200 * notMarked + total < 2 * total * (covMessage.pct + 1)

\* C28: the coverage check reports, for every source document, a percentage in
\* 0..100 equal to round(100 * number of lines not marked uncovered / total number
\* of lines), a count of uncovered lines equal to the number of highlighted lines,
\* and 100 for a document with zero lines; a line is marked uncovered exactly when
\* it is non-blank and has a token that is not an identifier, number or string and
\* is not a quoted terminal of the grammar.
C28_CoverageReport ==
  /\ C28_Marking
  /\ C28_Count
  /\ C28_Percentage
  /\ covPc = "done" /\ Len(covSource) = 0 => covMessage.pct = 100

(***************************************************************************)
(* Preview results with a worse mdl: claim C29.                            *)
(***************************************************************************)
\* a step in which the close handler of a process runs
closeStep ==
  \E p \in DOMAIN procs : procs[p].status # "closed" /\ procs'[p].status = "closed"

\* a step in which a preview inference completes (exit code 0, output parsed) with a
\* numeric mdl while the stored metrics have a numeric mdl
previewCompletes ==
  /\ closeStep
  /\ lastClose'.preview
  /\ lastClose'.outcome \in {"kept", "opened"}
  /\ lastClose'.metrics.defined /\ lastClose'.metrics.numeric
  /\ lastPreviewMetrics.defined /\ lastPreviewMetrics.numeric

\* a worse preview result leaves the stored metrics alone and opens no document
C29_DiscardStep ==
  previewCompletes /\ lastClose'.metrics.mdl > lastPreviewMetrics.mdl =>
    /\ lastPreviewMetrics' = lastPreviewMetrics
    /\ lastClose'.outcome = "kept"

\* a completed preview never raises the stored mdl
C29_NonIncreasingStep ==
  previewCompletes =>
    /\ lastPreviewMetrics'.defined /\ lastPreviewMetrics'.numeric
    /\ lastPreviewMetrics'.mdl <= lastPreviewMetrics.mdl

\* C29: a preview inference result whose metrics.mdl is a number strictly greater
\* than the mdl of the stored lastPreviewMetrics is discarded: it leaves
\* lastPreviewMetrics unchanged and opens no grammar document; so over any sequence
\* of completed preview inferences with numeric mdl the mdl of lastPreviewMetrics
\* never increases.
C29_WorsePreviewDiscarded == [][C29_DiscardStep /\ C29_NonIncreasingStep]_vars

\* a preview with mdl 2 has completed and was discarded, the stored mdl is still 1
C29_Witness ==
  /\ lastClose.outcome = "kept"
  /\ lastClose.preview
  /\ lastClose.metrics.mdl = 2
  /\ lastPreviewMetrics.numeric
  /\ lastPreviewMetrics.mdl = 1

====
